---- MODULE Spec2Model ----
(***************************************************************************)
(* Model of src/backend/upload.py: the Lambda handler that brokers access  *)
(* to S3 objects through presigned URLs and keeps one metadata item per    *)
(* file in the DynamoDB files table.                                       *)
(*                                                                         *)
(* Python strings are modelled as sequences of one-character strings, so   *)
(* that splitext, lower, startswith and the f-string concatenations are    *)
(* computed as the code computes them.  Every Lambda invocation is a       *)
(* request slot r; its steps are the calls it makes to a collaborator      *)
(* (Cognito, S3 presigner, DynamoDB), with the local computation that      *)
(* precedes the next call folded into the step.                            *)
(***************************************************************************)
EXTENDS Integers, Sequences, FiniteSets, TLC

(***************************************************************************)
(* Bounds of the model.                                                    *)
(***************************************************************************)
\* number of distinct values of the truncated digest (2^32 in the code)
HashSpace == 2

(***************************************************************************)
(* Program constants.                                                      *)
(***************************************************************************)
MAX_FILE_SIZE == 104857600
MaxNameLen == 255
FingerprintLen == 8
ExpiresIn == 3600

\* Python's None and the missing key of a dict
None == [none |-> TRUE]

(***************************************************************************)
(* Strings.                                                                *)
(***************************************************************************)
UpperChars == <<"A","B","C","D","E","F","G","H","I","J","K","L","M",
                "N","O","P","Q","R","S","T","U","V","W","X","Y","Z">>
LowerChars == <<"a","b","c","d","e","f","g","h","i","j","k","l","m",
                "n","o","p","q","r","s","t","u","v","w","x","y","z">>
OtherChars == <<"0","1","2","3","4","5","6","7","8","9",".","_","/","-"," ">>
AllChars == LowerChars \o UpperChars \o OtherChars

\* ord(c), as the position of c in the alphabet of the model
OrdTable == [c \in {AllChars[i] : i \in 1..Len(AllChars)} |->
               CHOOSE i \in 1..Len(AllChars) : AllChars[i] = c]
Ord(c) == OrdTable[c]

\* dict.get(key, default)
Get(d, key, default) == IF key \in DOMAIN d THEN d[key] ELSE default

\* str.lower()
LowerChar(c) ==
  IF \E i \in 1..26 : UpperChars[i] = c
  THEN LowerChars[CHOOSE i \in 1..26 : UpperChars[i] = c]
  ELSE c
Lower(s) == [i \in 1..Len(s) |-> LowerChar(s[i])]

\* str.rfind(c): 0 stands for Python's -1, positions are 1-based
RFind(s, c) ==
  IF \E i \in 1..Len(s) : s[i] = c
  THEN CHOOSE i \in 1..Len(s) : s[i] = c /\ \A j \in (i+1)..Len(s) : s[j] # c
  ELSE 0

\* os.path.splitext(p)[1] (posixpath / genericpath._splitext)
SplitExt(p) ==
  LET sepIndex == RFind(p, "/")
      dotIndex == RFind(p, ".")
  IN IF dotIndex > sepIndex
        /\ \E i \in (sepIndex+1)..(dotIndex-1) : p[i] # "."
     THEN SubSeq(p, dotIndex, Len(p))
     ELSE <<>>

\* decimal digits of a natural number, str(n)
DigitChars == <<"0","1","2","3","4","5","6","7","8","9">>
RECURSIVE Digits(_)
Digits(n) == IF n < 10 THEN <<DigitChars[n+1]>>
             ELSE Digits(n \div 10) \o <<DigitChars[(n % 10) + 1]>>

\* n as lib-hex of exactly w characters, zero padded
HexChars == <<"0","1","2","3","4","5","6","7","8","9","a","b","c","d","e","f">>
RECURSIVE HexW(_, _)
HexW(n, w) == IF w = 0 THEN <<>>
              ELSE HexW(n \div 16, w - 1) \o <<HexChars[(n % 16) + 1]>>

\* datetime.isoformat() of the instant t
Isoformat(t) == <<"T">> \o Digits(t)

(***************************************************************************)
(* Configuration: the extension allow-list, in the dict's order.           *)
(***************************************************************************)
Categories == <<"image", "document", "video", "audio">>
ALLOWED_EXTENSIONS ==
  [image    |-> << <<".","j","p","g">>, <<".","j","p","e","g">>,
                   <<".","p","n","g">>, <<".","g","i","f">>,
                   <<".","b","m","p">>, <<".","w","e","b","p">> >>,
   document |-> << <<".","p","d","f">>, <<".","d","o","c">>,
                   <<".","d","o","c","x">>, <<".","t","x","t">>,
                   <<".","r","t","f">>, <<".","o","d","t">> >>,
   video    |-> << <<".","m","p","4">>, <<".","a","v","i">>,
                   <<".","m","o","v">>, <<".","w","m","v">>,
                   <<".","f","l","v">>, <<".","w","e","b","m">> >>,
   audio    |-> << <<".","m","p","3">>, <<".","w","a","v">>,
                   <<".","f","l","a","c">>, <<".","a","a","c">>,
                   <<".","o","g","g">> >>]

InList(x, list) == \E i \in 1..Len(list) : list[i] = x

\* the first category, in dict order, whose list holds the extension; 0 if none
CategoryIndex(ext) ==
  IF \E i \in 1..Len(Categories) : InList(ext, ALLOWED_EXTENSIONS[Categories[i]])
  THEN CHOOSE i \in 1..Len(Categories) :
         /\ InList(ext, ALLOWED_EXTENSIONS[Categories[i]])
         /\ \A j \in 1..(i-1) : ~InList(ext, ALLOWED_EXTENSIONS[Categories[j]])
  ELSE 0

(***************************************************************************)
(* validate_file                                                           *)
(***************************************************************************)
SizeError == "File size exceeds maximum limit"
TypeError == "File type is not allowed"
NameError == "Invalid filename"

\* a validation that stops at the first rule that is violated
validate_file_first_error(file_info) ==
  LET filename == Get(file_info, "name", <<>>)
  IN IF Get(file_info, "size", 0) > MAX_FILE_SIZE THEN <<SizeError>>
     ELSE IF CategoryIndex(Lower(SplitExt(filename))) = 0 THEN <<TypeError>>
     ELSE IF filename = <<>> \/ Len(filename) > MaxNameLen THEN <<NameError>>
     ELSE <<>>

\* a validation whose size rule rejects the maximum itself
validate_file_size_inclusive(file_info) ==
  LET filename == Get(file_info, "name", <<>>)
      file_extension == Lower(SplitExt(filename))
      e1 == IF Get(file_info, "size", 0) >= MAX_FILE_SIZE THEN <<SizeError>> ELSE <<>>
      e2 == IF CategoryIndex(file_extension) = 0 THEN <<TypeError>> ELSE <<>>
      e3 == IF filename = <<>> \/ Len(filename) > MaxNameLen
            THEN <<NameError>> ELSE <<>>
  IN e1 \o e2 \o e3

\* a validation whose name rule rejects a name of the maximum length
validate_file_name_inclusive(file_info) ==
  LET filename == Get(file_info, "name", <<>>)
      file_extension == Lower(SplitExt(filename))
      e1 == IF Get(file_info, "size", 0) > MAX_FILE_SIZE THEN <<SizeError>> ELSE <<>>
      e2 == IF CategoryIndex(file_extension) = 0 THEN <<TypeError>> ELSE <<>>
      e3 == IF filename = <<>> \/ Len(filename) >= MaxNameLen
            THEN <<NameError>> ELSE <<>>
  IN e1 \o e2 \o e3

\* a validation that compares the extension as it is written
validate_file_case_sensitive(file_info) ==
  LET filename == Get(file_info, "name", <<>>)
      file_extension == SplitExt(filename)
      e1 == IF Get(file_info, "size", 0) > MAX_FILE_SIZE THEN <<SizeError>> ELSE <<>>
      e2 == IF CategoryIndex(file_extension) = 0 THEN <<TypeError>> ELSE <<>>
      e3 == IF filename = <<>> \/ Len(filename) > MaxNameLen
            THEN <<NameError>> ELSE <<>>
  IN e1 \o e2 \o e3

validate_file(file_info) ==
  LET filename == Get(file_info, "name", <<>>)
      file_extension == Lower(SplitExt(filename))
      e1 == IF Get(file_info, "size", 0) > MAX_FILE_SIZE THEN <<SizeError>> ELSE <<>>
      e2 == IF CategoryIndex(file_extension) = 0 THEN <<TypeError>> ELSE <<>>
      e3 == IF filename = <<>> \/ Len(filename) > MaxNameLen
            THEN <<NameError>> ELSE <<>>
  IN e1 \o e2 \o e3

(***************************************************************************)
(* generate_file_id                                                        *)
(***************************************************************************)
\* hashlib.md5(s).hexdigest()[:8]: a deterministic digest of the bytes of s,
\* cut to FingerprintLen hex characters; the digest ranges over HashSpace
\* values where MD5 cut to 8 hex characters ranges over 2^32.
RECURSIVE Digest(_, _)
Digest(s, h) == IF s = <<>> THEN h
                ELSE Digest(Tail(s), (h * 31 + Ord(Head(s))) % HashSpace)

Md5Hex8(s) == HexW(Digest(s, 0), FingerprintLen)

generate_file_id(user_id, filename, now) ==
  user_id \o <<"_">> \o Md5Hex8(user_id \o filename \o Isoformat(now))

(***************************************************************************)
(* create_signed_url                                                       *)
(***************************************************************************)
\* an inference that looks the extension up as it is written
ContentTypeOfExact(filename) ==
  LET file_extension == SplitExt(filename)
      c == CategoryIndex(file_extension)
      sub == SubSeq(file_extension, 2, Len(file_extension))
  IN IF c = 0 THEN <<"application/octet-stream">>
     ELSE IF Categories[c] = "image" THEN <<"image/">> \o sub
     ELSE IF Categories[c] = "document"
          THEN IF file_extension = <<".","p","d","f">>
               THEN <<"application/pdf">> ELSE <<"application/msword">>
     ELSE IF Categories[c] = "video" THEN <<"video/">> \o sub
     ELSE <<"audio/">> \o sub

ContentTypeOf(filename) ==
  LET file_extension == Lower(SplitExt(filename))
      c == CategoryIndex(file_extension)
      sub == SubSeq(file_extension, 2, Len(file_extension))
  IN IF c = 0 THEN <<"application/octet-stream">>
     ELSE IF Categories[c] = "image" THEN <<"image/">> \o sub
     ELSE IF Categories[c] = "document"
          THEN IF file_extension = <<".","p","d","f">>
               THEN <<"application/pdf">> ELSE <<"application/msword">>
     ELSE IF Categories[c] = "video" THEN <<"video/">> \o sub
     ELSE <<"audio/">> \o sub

\* a key made of the declared name alone
ObjectKeyOfName(user_id, file_id, filename) ==
  <<"u","p","l","o","a","d","s","/">> \o filename

ObjectKey(user_id, file_id, filename) ==
  <<"u","p","l","o","a","d","s","/">> \o user_id \o <<"/">> \o file_id
    \o <<"/">> \o filename

\* an issuer whose read URLs live for a day
create_signed_url_long_read(file_id, filename, user_id, operation, s3Ok) ==
  IF ~s3Ok THEN None
  ELSE IF operation = "put_object"
  THEN [method |-> "put_object",
        Key |-> ObjectKey(user_id, file_id, filename),
        ContentType |-> ContentTypeOf(filename),
        ExpiresIn |-> ExpiresIn]
  ELSE [method |-> "get_object",
        Key |-> ObjectKey(user_id, file_id, filename),
        ExpiresIn |-> 86400]

\* create_signed_url that returns a URL of the bucket's form when
\* generate_presigned_url raised
create_signed_url_swallowing(file_id, filename, user_id, operation, s3Ok) ==
  IF operation = "put_object"
  THEN [method |-> "put_object",
        Key |-> ObjectKey(user_id, file_id, filename),
        ContentType |-> ContentTypeOf(filename),
        ExpiresIn |-> ExpiresIn]
  ELSE [method |-> "get_object",
        Key |-> ObjectKey(user_id, file_id, filename),
        ExpiresIn |-> ExpiresIn]

\* s3Ok: whether generate_presigned_url returned (TRUE) or raised (FALSE)
create_signed_url(file_id, filename, user_id, operation, s3Ok) ==
  IF ~s3Ok THEN None
  ELSE IF operation = "put_object"
  THEN [method |-> "put_object",
        Key |-> ObjectKey(user_id, file_id, filename),
        ContentType |-> ContentTypeOf(filename),
        ExpiresIn |-> ExpiresIn]
  ELSE [method |-> "get_object",
        Key |-> ObjectKey(user_id, file_id, filename),
        ExpiresIn |-> ExpiresIn]

(***************************************************************************)
(* The requests the model sends.                                           *)
(***************************************************************************)
\* Lambda invocations that may be in flight at the same time
Slots == {"r1", "r2"}

U1 == <<"u","1">>
U2 == <<"u","2">>
Users == {U1, U2}

\* access tokens: two good ones, one the provider rejects, one that is no JWT
Tokens == {"tok_u1", "tok_u2", "tok_expired", "garbage"}
\* jwt.get_unverified_claims(token).get('sub'); "garbage" and the empty
\* token make it raise
TokenDecodes(token) == token \notin {"garbage", ""}
\* "tok_forged_u2" is a JWT nobody signed that names u2, "tok_nosub" one
\* whose claims have no 'sub', for which .get('sub') gives None
TokenSub(token) ==
  IF token \in {"tok_u2", "tok_forged_u2"} THEN U2
  ELSE IF token = "tok_nosub" THEN None
  ELSE U1
\* whether cognito_idp.get_user accepts the token when the provider answers
TokenAccepted(token) == token \in {"tok_u1", "tok_u2"}

\* the Authorization header, as header.split(' ') sees it
AuthHeaders ==
  { <<"">>, <<"InvalidFormat">>, <<"Bearer">> }
    \cup { <<"Basic", t>> : t \in {"tok_u1"} }
    \cup { <<"Bearer", t>> : t \in Tokens }

NameJpg == <<"a",".","j","p","g">>
NameExe == <<"v",".","e","x","e">>
FileInfos ==
  { [name |-> NameJpg, size |-> 10, type |-> "image/jpeg"],
    [name |-> NameExe, size |-> 10, type |-> "application/octet-stream"],
    [name |-> NameJpg, size |-> MAX_FILE_SIZE + 1, type |-> "image/jpeg"],
    [name |-> <<>>, size |-> MAX_FILE_SIZE + 1, type |-> "image/jpeg"] }
Metadatas == { [title |-> <<"t">>] }

\* the ids a client may name: every id some user could have been given, and
\* the empty one
FileIdInputs ==
  { u \o <<"_">> \o HexW(h, FingerprintLen) : u \in Users, h \in 0..(HashSpace - 1) }
    \cup { <<>> }

\* json.loads(event['body']): a dict, or the body that is no JSON
UploadBodies ==
  { [operation |-> "get_upload_url", file_info |-> fi, metadata |-> md] :
      fi \in FileInfos, md \in Metadatas }
    \cup { [file_info |-> fi, metadata |-> md] :
      fi \in {[name |-> NameJpg, size |-> 10, type |-> "image/jpeg"]},
      md \in Metadatas }
OtherBodies ==
  { [operation |-> op, file_id |-> f] :
      op \in {"complete_upload", "get_download_url"}, f \in FileIdInputs }
    \cup { [operation |-> "complete_upload"], [operation |-> "get_download_url"],
           [operation |-> "invalid_operation"], [invalid_json |-> TRUE] }
Bodies == UploadBodies \cup OtherBodies

\* the instants datetime.now returns: the invocations of the model all read
\* the same reading of the wall clock, as concurrent invocations can
Instants == {0}

\* the Lambda events: preflights, requests the authentication turns away,
\* and every body under the two good tokens
Events ==
  { [httpMethod |-> "OPTIONS", headers |-> [Authorization |-> a], body |-> b] :
      a \in {<<"">>, <<"Bearer", "tok_u1">>},
      b \in {[operation |-> "invalid_operation"], [invalid_json |-> TRUE]} }
    \cup
  { [httpMethod |-> "POST", headers |-> [Authorization |-> a], body |-> b] :
      a \in AuthHeaders, b \in {[operation |-> "complete_upload"]} }
    \cup
  { [httpMethod |-> "POST", headers |-> [Authorization |-> <<"Bearer", t>>],
     body |-> b] :
      t \in {"tok_u1", "tok_u2"}, b \in Bodies }

\* an event together with what its invocation finds: whether the identity
\* provider answers, and the instant generate_file_id reads
Inputs ==
  { [event |-> e, idpUp |-> up, now |-> t] :
      e \in Events, up \in BOOLEAN, t \in Instants }

(***************************************************************************)
(* State.                                                                  *)
(***************************************************************************)
VARIABLES
  table,     \* the files table: primary key <<file_id, user_id>> -> item
  pc,        \* per invocation: the collaborator call it is about to make
  loc,       \* per invocation: the handler's local variables
  response,  \* per invocation: the response returned, None until then
  calls,     \* per invocation: the collaborator calls made so far
  twin,      \* two deployments given the same requests (SpecTwin), else None
  request,   \* the event of the invocation under way (SpecSeq), else None
  applied,   \* a function of the module applied to drawn arguments, else None
  raised,    \* per invocation: the exceptions raised so far, with their calls
  auth,      \* the invocation of the authentication handler, the users table
             \* and the user pool, else None
  server     \* the local development server: the rows of its files table,
             \* its upload folder and the request it served last, else None

vars == <<table, pc, loc, response, calls, twin, request, applied, raised, auth,
          server>>

NoLocals == [operation |-> "", user_id |-> <<>>, file_info |-> None,
             metadata |-> None, file_id |-> <<>>, url |-> None,
             file_item |-> None]

create_response(status_code, body) == [statusCode |-> status_code, body |-> body]

Init ==
  /\ table = << >>
  /\ pc = [r \in Slots |-> "idle"]
  /\ loc = [r \in Slots |-> NoLocals]
  /\ response = [r \in Slots |-> None]
  /\ calls = [r \in Slots |-> <<>>]
  /\ raised = [r \in Slots |-> <<>>]
  /\ auth = None
  /\ server = None
  /\ twin = None
  /\ request = None
  /\ applied = None

(***************************************************************************)
(* The DynamoDB table, as boto3's Table resource exposes it.               *)
(***************************************************************************)
PrimaryKey(file_id, user_id) == <<file_id, user_id>>

\* a put that leaves the new item as the only item of the table
put_item_alone(tbl, item) ==
  PrimaryKey(item.file_id, item.user_id) :> item

\* table.put_item(Item=item) without ConditionExpression: the item replaces
\* whatever item has its primary key
put_item(tbl, item) ==
  LET k == PrimaryKey(item.file_id, item.user_id)
  IN [x \in DOMAIN tbl \cup {k} |-> IF x = k THEN item ELSE tbl[x]]

\* a lookup that matches the file_id alone and ignores the owner of the key
get_item_by_file_id(tbl, file_id, user_id) ==
  IF \E k \in DOMAIN tbl : k[1] = file_id
  THEN [Item |-> tbl[CHOOSE k \in DOMAIN tbl : k[1] = file_id]]
  ELSE [ResponseMetadata |-> TRUE]

\* table.get_item(Key=key): the response, with 'Item' only when there is one
get_item(tbl, file_id, user_id) ==
  LET k == PrimaryKey(file_id, user_id)
  IN IF k \in DOMAIN tbl THEN [Item |-> tbl[k]] ELSE [ResponseMetadata |-> TRUE]

\* a condition that asks only whether some item carries the file_id
ConditionExpressionAnyOwner(tbl, file_id, user_id) ==
  \E k \in DOMAIN tbl : k[1] = file_id

\* an update_item sent without its ConditionExpression
ConditionExpressionOmitted(tbl, file_id, user_id) == TRUE

\* a condition that also asks for the record to be in status uploading, the
\* policy that rejects a repeated confirm-upload
ConditionExpressionUploadingOnly(tbl, file_id, user_id) ==
  LET k == PrimaryKey(file_id, user_id)
  IN k \in DOMAIN tbl /\ tbl[k].user_id = user_id /\ tbl[k].status = "uploading"

\* ConditionExpression='attribute_exists(file_id) AND user_id = :user_id',
\* evaluated on the item at the key of the update
ConditionExpression(tbl, file_id, user_id) ==
  LET k == PrimaryKey(file_id, user_id)
  IN k \in DOMAIN tbl /\ tbl[k].user_id = user_id

\* an update that writes a fresh item with the key and the two attributes it
\* sets, as a put of the update's values would
update_item_as_put(tbl, file_id, user_id, now) ==
  LET k == PrimaryKey(file_id, user_id)
      new == [file_id |-> file_id, user_id |-> user_id,
              status |-> "completed", last_modified |-> Isoformat(now)]
  IN IF ConditionExpression(tbl, file_id, user_id)
     THEN [failed |-> FALSE,
           table |-> [x \in DOMAIN tbl \cup {k} |-> IF x = k THEN new ELSE tbl[x]]]
     ELSE [failed |-> TRUE, table |-> tbl]

\* an update whose expression also adds one to the version
update_item_bumping_version(tbl, file_id, user_id, now) ==
  LET k == PrimaryKey(file_id, user_id)
      old == IF k \in DOMAIN tbl THEN tbl[k]
             ELSE [file_id |-> file_id, user_id |-> user_id, version |-> 0]
      new == [a \in DOMAIN old \cup {"status", "last_modified"} |->
                IF a = "status" THEN "completed"
                ELSE IF a = "last_modified" THEN Isoformat(now)
                ELSE IF a = "version" THEN old[a] + 1
                ELSE old[a]]
  IN IF ConditionExpression(tbl, file_id, user_id)
     THEN [failed |-> FALSE,
           table |-> [x \in DOMAIN tbl \cup {k} |-> IF x = k THEN new ELSE tbl[x]]]
     ELSE [failed |-> TRUE, table |-> tbl]

\* table.update_item(Key, 'SET #status = :status, last_modified = :lm'):
\* when the condition holds the attributes are set on the item at the key,
\* which DynamoDB creates from the key when there is none
update_item(tbl, file_id, user_id, now) ==
  LET k == PrimaryKey(file_id, user_id)
      old == IF k \in DOMAIN tbl THEN tbl[k]
             ELSE [file_id |-> file_id, user_id |-> user_id]
      new == [a \in DOMAIN old \cup {"status", "last_modified"} |->
                IF a = "status" THEN "completed"
                ELSE IF a = "last_modified" THEN Isoformat(now)
                ELSE old[a]]
  IN IF ConditionExpression(tbl, file_id, user_id)
     THEN [failed |-> FALSE,
           table |-> [x \in DOMAIN tbl \cup {k} |-> IF x = k THEN new ELSE tbl[x]]]
     ELSE [failed |-> TRUE, table |-> tbl]

(***************************************************************************)
(* verify_token                                                            *)
(***************************************************************************)
\* a verification that reads the claims and does not ask the provider
verify_token_claims_only(token, idpUp) ==
  IF TokenDecodes(token)
  THEN [user_id |-> TokenSub(token)]
  ELSE None

\* a verification that trusts the claims it decoded whenever the provider
\* does not answer
verify_token_fail_open(token, idpUp) ==
  IF TokenDecodes(token) /\ (~idpUp \/ TokenAccepted(token))
  THEN [user_id |-> TokenSub(token)]
  ELSE None

\* idpUp: whether cognito_idp.get_user answers; any exception gives None
verify_token(token, idpUp) ==
  IF TokenDecodes(token) /\ idpUp /\ TokenAccepted(token)
  THEN [user_id |-> TokenSub(token)]
  ELSE None

\* the collaborator calls verify_token makes: get_user is reached only when
\* the token decodes
VerifyCalls(token) == IF TokenDecodes(token) THEN <<"get_user">> ELSE <<>>

\* an exception, with the call that raised it
Exc(call, error) == [call |-> call, error |-> error]

\* the exception verify_token catches when it returns None
VerifyRaised(token) ==
  IF TokenDecodes(token) THEN <<Exc("get_user", "Exception")>>
  ELSE <<Exc("get_unverified_claims", "JWTError")>>

(***************************************************************************)
(* store_file_metadata                                                     *)
(***************************************************************************)
FileType(filename) ==
  LET c == CategoryIndex(Lower(SplitExt(filename)))
  IN IF c = 0 THEN "other" ELSE Categories[c]

\* an item that starts out completed, at version 0, under the category the
\* client's content type would suggest
NewItemPresumed(file_id, user_id, filename, file_info, metadata, now) ==
  [file_id |-> file_id,
   user_id |-> user_id,
   filename |-> filename,
   file_type |-> "other",
   file_size |-> Get(file_info, "size", 0),
   content_type |-> Get(file_info, "type", "application/octet-stream"),
   s3_key |-> ObjectKey(user_id, file_id, filename),
   title |-> Get(metadata, "title", filename),
   description |-> Get(metadata, "description", <<>>),
   tags |-> Get(metadata, "tags", <<>>),
   upload_date |-> Isoformat(now),
   last_modified |-> Isoformat(now),
   version |-> 0,
   status |-> "completed"]

NewItem(file_id, user_id, filename, file_info, metadata, now) ==
  [file_id |-> file_id,
   user_id |-> user_id,
   filename |-> filename,
   file_type |-> FileType(filename),
   file_size |-> Get(file_info, "size", 0),
   content_type |-> Get(file_info, "type", "application/octet-stream"),
   s3_key |-> ObjectKey(user_id, file_id, filename),
   title |-> Get(metadata, "title", filename),
   description |-> Get(metadata, "description", <<>>),
   tags |-> Get(metadata, "tags", <<>>),
   upload_date |-> Isoformat(now),
   last_modified |-> Isoformat(now),
   version |-> 1,
   status |-> "uploading"]

\* dbOk: whether put_item returned (TRUE) or raised (FALSE)
store_file_metadata(tbl, file_id, user_id, filename, file_info, metadata, now, dbOk) ==
  IF dbOk
  THEN [ok |-> TRUE,
        table |-> put_item(tbl, NewItem(file_id, user_id, filename, file_info,
                                        metadata, now))]
  ELSE [ok |-> FALSE, table |-> tbl]

(***************************************************************************)
(* handler and the three operations, up to their first collaborator call.  *)
(* Each yields the invocation's next position, its locals, its response    *)
(* (None while it runs) and the collaborator calls made.                   *)
(***************************************************************************)
Finished(locals, resp) == [pc |-> "done", loc |-> locals, response |-> resp]

handle_get_upload_url(body, user_id, now) ==
  LET file_info == Get(body, "file_info", << >>)
      metadata == Get(body, "metadata", << >>)
      validation_errors == validate_file(file_info)
      filename == Get(file_info, "name", <<>>)
      file_id == generate_file_id(user_id, filename, now)
  IN IF validation_errors # <<>>
     THEN Finished([NoLocals EXCEPT !.operation = "get_upload_url",
                      !.user_id = user_id, !.file_info = file_info,
                      !.metadata = metadata],
            create_response(400, [error |-> "File validation failed",
                                  details |-> validation_errors]))
     ELSE [pc |-> "sign_put",
           loc |-> [NoLocals EXCEPT !.operation = "get_upload_url",
                      !.user_id = user_id, !.file_info = file_info,
                      !.metadata = metadata, !.file_id = file_id],
           response |-> None]

\* handle_complete_upload that rejects a missing file_id and lets an empty
\* one through
handle_complete_upload_missing_only(body, user_id) ==
  LET file_id == Get(body, "file_id", None)
  IN IF file_id = None
     THEN Finished([NoLocals EXCEPT !.operation = "complete_upload",
                      !.user_id = user_id],
            create_response(400, [error |-> "Missing file_id"]))
     ELSE [pc |-> "update_item",
           loc |-> [NoLocals EXCEPT !.operation = "complete_upload",
                      !.user_id = user_id, !.file_id = file_id],
           response |-> None]

handle_complete_upload(body, user_id) ==
  LET file_id == Get(body, "file_id", None)
  IN IF file_id = None \/ file_id = <<>>
     THEN Finished([NoLocals EXCEPT !.operation = "complete_upload",
                      !.user_id = user_id],
            create_response(400, [error |-> "Missing file_id"]))
     ELSE [pc |-> "update_item",
           loc |-> [NoLocals EXCEPT !.operation = "complete_upload",
                      !.user_id = user_id, !.file_id = file_id],
           response |-> None]

handle_get_download_url(body, user_id) ==
  LET file_id == Get(body, "file_id", None)
  IN IF file_id = None \/ file_id = <<>>
     THEN Finished([NoLocals EXCEPT !.operation = "get_download_url",
                      !.user_id = user_id],
            create_response(400, [error |-> "Missing file_id"]))
     ELSE [pc |-> "get_item",
           loc |-> [NoLocals EXCEPT !.operation = "get_download_url",
                      !.user_id = user_id, !.file_id = file_id],
           response |-> None]

\* startswith('Bearer ') on the header whose split(' ') is a
StartsWithBearer(a) == Len(a) >= 2 /\ a[1] = "Bearer"

\* event is the Lambda proxy event: 'headers' is a dict, null (None) or
\* missing, and 'body' is a JSON text, null (None) or missing, when it reads
\* as '{}'.  .get on a null 'headers' raises AttributeError and json.loads of
\* a null 'body' raises TypeError, which handler's except clause turns into
\* 500.
HandlerOutcome(event, idpUp, now) ==
  LET headers == Get(event, "headers", << >>)
      a == Get(headers, "Authorization", <<"">>)
      token == a[2]
      user_info == verify_token(token, idpUp)
      body == Get(event, "body", << >>)
      operation == Get(body, "operation", "get_upload_url")
      early(resp, cs, ex) ==
        Finished(NoLocals, resp) @@ [calls |-> cs, raised |-> ex]
      dispatched == [calls |-> VerifyCalls(token), raised |-> <<>>]
  IN IF Get(event, "httpMethod", "") = "OPTIONS"
     THEN early(create_response(200, [message |-> "OK"]), <<>>, <<>>)
     ELSE IF headers = None
     THEN early(create_response(500, [error |-> "Internal server error"]), <<>>,
                <<Exc("handler", "AttributeError")>>)
     ELSE IF ~StartsWithBearer(a)
     THEN early(create_response(401,
                  [error |-> "Missing or invalid authorization header"]),
                <<>>, <<>>)
     ELSE IF user_info = None
     THEN early(create_response(401, [error |-> "Invalid or expired token"]),
                VerifyCalls(token), VerifyRaised(token))
     ELSE IF body = None
     THEN early(create_response(500, [error |-> "Internal server error"]),
                VerifyCalls(token), <<Exc("json.loads", "TypeError")>>)
     ELSE IF "invalid_json" \in DOMAIN body
     THEN early(create_response(400, [error |-> "Invalid JSON in request body"]),
                VerifyCalls(token), <<Exc("json.loads", "JSONDecodeError")>>)
     ELSE IF operation = "get_upload_url"
     THEN handle_get_upload_url(body, user_info.user_id, now) @@ dispatched
     ELSE IF operation = "complete_upload"
     THEN handle_complete_upload(body, user_info.user_id) @@ dispatched
     ELSE IF operation = "get_download_url"
     THEN handle_get_download_url(body, user_info.user_id) @@ dispatched
     ELSE early(create_response(400, [error |-> "Invalid operation"]),
                VerifyCalls(token), <<>>)

\* what the invocations of the Lambda can have done when they reach their
\* first table or S3 call, or return before it
HandlerOutcomes ==
  { HandlerOutcome(in.event, in.idpUp, in.now) : in \in Inputs }

\* an invocation of the Lambda starts and runs to its first table or S3 call
handler(r) ==
  /\ pc[r] \in {"idle", "done"}
  /\ \E out \in HandlerOutcomes :
          /\ pc' = [pc EXCEPT ![r] = out.pc]
          /\ loc' = [loc EXCEPT ![r] = out.loc]
          /\ response' = [response EXCEPT ![r] = out.response]
          /\ calls' = [calls EXCEPT ![r] = out.calls]
          /\ raised' = [raised EXCEPT ![r] = out.raised]
  /\ UNCHANGED <<table, twin, request, applied, auth, server>>

(***************************************************************************)
(* The collaborator calls of the three operations.                         *)
(***************************************************************************)
\* the invocation returns resp after the collaborator call named call; its
\* locals stay readable until the slot takes its next event
\* the collaborator call named call raises error when cond holds
Raises(r, cond, call, error) ==
  raised' = [raised EXCEPT ![r] = IF cond THEN Append(@, Exc(call, error)) ELSE @]

Finish(r, resp, call) ==
  /\ pc' = [pc EXCEPT ![r] = "done"]
  /\ UNCHANGED loc
  /\ response' = [response EXCEPT ![r] = resp]
  /\ calls' = [calls EXCEPT ![r] = Append(@, call)]

\* a handler that asks for the URL again when create_signed_url gave none
AfterUploadUrlRetrying(upload_url) ==
  IF upload_url = None
  THEN [pc |-> "sign_put", response |-> None]
  ELSE [pc |-> "put_item", response |-> None]

\* a handler that goes on to store the metadata whatever create_signed_url gave
AfterUploadUrlUnchecked(upload_url) == [pc |-> "put_item", response |-> None]

\* what handle_get_upload_url does with the URL it got: the position it moves
\* to with a URL, the response it returns without one
AfterUploadUrl(upload_url) ==
  IF upload_url = None
  THEN [pc |-> "done",
        response |-> create_response(500, [error |-> "Failed to generate upload URL"])]
  ELSE [pc |-> "put_item", response |-> None]

\* handle_get_upload_url: create_signed_url(file_id, filename, user_id, 'put_object')
SignUpload(r) ==
  /\ pc[r] = "sign_put"
  /\ \E s3Ok \in BOOLEAN :
       LET l == loc[r]
           upload_url == create_signed_url(l.file_id, l.file_info.name, l.user_id,
                                           "put_object", s3Ok)
           next == AfterUploadUrl(upload_url)
       IN /\ Raises(r, ~s3Ok, "generate_presigned_url", "Exception")
          /\ IF next.pc = "done"
             THEN Finish(r, next.response, "generate_presigned_url")
             ELSE /\ pc' = [pc EXCEPT ![r] = next.pc]
                  /\ loc' = [loc EXCEPT ![r].url = upload_url]
                  /\ calls' = [calls EXCEPT ![r] = Append(@, "generate_presigned_url")]
                  /\ UNCHANGED response
  /\ UNCHANGED <<table, twin, request, applied, auth, server>>

\* a handler that does not look at what store_file_metadata returned
UploadResponseUnchecked(stored, upload_url, file_id) ==
  create_response(200, [upload_url |-> upload_url, file_id |-> file_id,
                        expires_in |-> ExpiresIn])

\* the response of handle_get_upload_url once store_file_metadata returned
UploadResponse(stored, upload_url, file_id) ==
  IF ~stored
  THEN create_response(500, [error |-> "Failed to store file metadata"])
  ELSE create_response(200, [upload_url |-> upload_url, file_id |-> file_id,
                             expires_in |-> ExpiresIn])

\* handle_get_upload_url: store_file_metadata and the response
PutItem(r) ==
  /\ pc[r] = "put_item"
  /\ \E dbOk \in BOOLEAN, now \in Instants :
       LET l == loc[r]
           res == store_file_metadata(table, l.file_id, l.user_id, l.file_info.name,
                                      l.file_info, l.metadata, now, dbOk)
       IN /\ table' = res.table
          /\ Raises(r, ~dbOk, "put_item", "Exception")
          /\ Finish(r, UploadResponse(res.ok, l.url, l.file_id), "put_item")
  /\ UNCHANGED <<twin, request, applied, auth, server>>

\* handle_complete_upload with an except clause that logs the error and
\* goes on to the success response
CompleteResponseSwallowing(outcome) ==
  IF outcome = "ConditionalCheckFailedException"
  THEN create_response(404, [error |-> "File not found or access denied"])
  ELSE create_response(200, [message |-> "Upload completed successfully"])

\* the response of handle_complete_upload for each way update_item can end:
\* "ok", "ConditionalCheckFailedException", another ClientError, or an
\* exception that is no ClientError and reaches handler's except clause
CompleteResponse(outcome) ==
  IF outcome = "ok"
  THEN create_response(200, [message |-> "Upload completed successfully"])
  ELSE IF outcome = "ConditionalCheckFailedException"
  THEN create_response(404, [error |-> "File not found or access denied"])
  ELSE IF outcome = "ClientError"
  THEN create_response(500, [error |-> "Database error"])
  ELSE create_response(500, [error |-> "Internal server error"])

\* handle_complete_upload from update_item on, against the table tbl; db is
\* "ok" when DynamoDB evaluates the update, or the exception the call raises
CompleteUpload(tbl, file_id, user_id, now, db) ==
  LET res == update_item(tbl, file_id, user_id, now)
      outcome == IF db # "ok" THEN db
                 ELSE IF res.failed THEN "ConditionalCheckFailedException"
                 ELSE "ok"
  IN [response |-> CompleteResponse(outcome),
      table |-> IF db = "ok" THEN res.table ELSE tbl,
      outcome |-> outcome]

\* handle_complete_upload: table.update_item
UpdateItem(r) ==
  /\ pc[r] = "update_item"
  /\ \E db \in {"ok", "ClientError", "Exception"}, now \in Instants :
       LET res == CompleteUpload(table, loc[r].file_id, loc[r].user_id, now, db)
       IN /\ table' = res.table
          /\ Raises(r, res.outcome # "ok", "update_item", res.outcome)
          /\ Finish(r, res.response, "update_item")
  /\ UNCHANGED <<twin, request, applied, auth, server>>

\* a lookup that treats a record that is not completed as missing
LookUpCompletedOnly(tbl, file_id, user_id, dbOk) ==
  LET resp == get_item(tbl, file_id, user_id)
  IN IF ~dbOk
     THEN [found |-> FALSE,
           response |-> create_response(500, [error |-> "Internal server error"])]
     ELSE IF "Item" \notin DOMAIN resp \/ resp.Item.status # "completed"
     THEN [found |-> FALSE,
           response |-> create_response(404, [error |-> "File not found"])]
     ELSE [found |-> TRUE, file_item |-> resp.Item]

\* handle_get_download_url from get_item to 'file_item = response["Item"]',
\* against the table tbl; dbOk: whether get_item returned or raised
LookUp(tbl, file_id, user_id, dbOk) ==
  LET resp == get_item(tbl, file_id, user_id)
  IN IF ~dbOk
     THEN [found |-> FALSE,
           response |-> create_response(500, [error |-> "Internal server error"])]
     ELSE IF "Item" \notin DOMAIN resp
     THEN [found |-> FALSE,
           response |-> create_response(404, [error |-> "File not found"])]
     ELSE [found |-> TRUE, file_item |-> resp.Item]

\* handle_get_download_url: table.get_item
GetItem(r) ==
  /\ pc[r] = "get_item"
  /\ \E dbOk \in BOOLEAN :
       LET res == LookUp(table, loc[r].file_id, loc[r].user_id, dbOk)
       IN /\ Raises(r, ~dbOk, "get_item", "Exception")
          /\ IF ~res.found
             THEN Finish(r, res.response, "get_item")
             ELSE /\ pc' = [pc EXCEPT ![r] = "sign_get"]
                  /\ loc' = [loc EXCEPT ![r].file_item = res.file_item]
                  /\ calls' = [calls EXCEPT ![r] = Append(@, "get_item")]
                  /\ UNCHANGED response
  /\ UNCHANGED <<table, twin, request, applied, auth, server>>

\* the response of handle_get_download_url once create_signed_url returned
DownloadResponse(download_url, file_item) ==
  IF download_url = None
  THEN create_response(500, [error |-> "Failed to generate download URL"])
  ELSE create_response(200,
         [download_url |-> download_url,
          file_info |-> [filename |-> file_item.filename,
                         file_type |-> file_item.file_type,
                         file_size |-> file_item.file_size,
                         title |-> Get(file_item, "title", <<>>),
                         description |-> Get(file_item, "description", <<>>),
                         tags |-> Get(file_item, "tags", <<>>)],
          expires_in |-> ExpiresIn])

\* handle_get_download_url: create_signed_url(..., 'get_object') and the response
SignDownload(r) ==
  /\ pc[r] = "sign_get"
  /\ \E s3Ok \in BOOLEAN :
       LET l == loc[r]
           download_url == create_signed_url(l.file_id, l.file_item.filename,
                                             l.user_id, "get_object", s3Ok)
       IN /\ Raises(r, ~s3Ok, "generate_presigned_url", "Exception")
          /\ Finish(r, DownloadResponse(download_url, l.file_item),
                    "generate_presigned_url")
  /\ UNCHANGED <<table, twin, request, applied, auth, server>>

Next ==
  \E r \in Slots :
    \/ handler(r)
    \/ SignUpload(r)
    \/ PutItem(r)
    \/ UpdateItem(r)
    \/ GetItem(r)
    \/ SignDownload(r)

Spec == Init /\ [][Next]_vars

(***************************************************************************)
(* Two deployments that differ only in the records of other owners.        *)
(* Both receive the same confirm-upload and request-download requests of   *)
(* one principal, and their collaborators fail at the same calls.  A        *)
(* behaviour is one request: the tables a request leaves are again initial *)
(* tables, so a sequence of requests is a sequence of behaviours.          *)
(***************************************************************************)
\* handle_complete_upload as a whole, against the table tbl
ConfirmUploadRun(tbl, body, user_id, now, db) ==
  LET first == handle_complete_upload(body, user_id)
  IN IF first.pc = "done"
     THEN [response |-> first.response, table |-> tbl]
     ELSE CompleteUpload(tbl, first.loc.file_id, user_id, now, db)

\* handle_get_download_url as a whole, against the table tbl
DownloadRun(tbl, body, user_id, dbOk, s3Ok) ==
  LET first == handle_get_download_url(body, user_id)
      res == LookUp(tbl, first.loc.file_id, user_id, dbOk)
  IN IF first.pc = "done" THEN first.response
     ELSE IF ~res.found THEN res.response
     ELSE DownloadResponse(
            create_signed_url(first.loc.file_id, res.file_item.filename,
                              user_id, "get_object", s3Ok),
            res.file_item)

\* the records request-upload and confirm-upload can have left at a key
ItemsOf(file_id, user_id) ==
  LET item == NewItem(file_id, user_id, NameJpg,
                      [name |-> NameJpg, size |-> 10, type |-> "image/jpeg"],
                      [title |-> <<"t">>], 0)
      k == PrimaryKey(file_id, user_id)
  IN { item, update_item(k :> item, file_id, user_id, 0).table[k] }

\* the keys a user's records can have
KeysOf(user_id) ==
  { PrimaryKey(user_id \o <<"_">> \o HexW(h, FingerprintLen), user_id) :
      h \in 0..(HashSpace - 1) }

\* the tables with records of the users in us only
RECURSIVE TablesOver(_)
TablesOver(keys) ==
  IF keys = {} THEN { << >> }
  ELSE LET k == CHOOSE x \in keys : TRUE
           rest == TablesOver(keys \ {k})
       IN rest \cup { (k :> i) @@ t : i \in ItemsOf(k[1], k[2]), t \in rest }

AllKeys == UNION { KeysOf(u) : u \in Users }

\* the part of a table that belongs to user_id
Partition(tbl, user_id) ==
  [k \in { x \in DOMAIN tbl : x[2] = user_id } |-> tbl[k]]

\* the two deployments hold the same records of the principal and any
\* records of the other owners
InitTwin ==
  /\ table = << >>
  /\ pc = [r \in Slots |-> "idle"]
  /\ loc = [r \in Slots |-> NoLocals]
  /\ response = [r \in Slots |-> None]
  /\ calls = [r \in Slots |-> <<>>]
  /\ raised = [r \in Slots |-> <<>>]
  /\ auth = None
  /\ server = None
  /\ request = None
  /\ applied = None
  /\ \E a \in Users :
       \E own \in TablesOver(KeysOf(a)),
          ta \in TablesOver(AllKeys \ KeysOf(a)),
          tb \in TablesOver(AllKeys \ KeysOf(a)) :
         twin = [principal |-> a, tableA |-> own @@ ta, tableB |-> own @@ tb,
                 body |-> None, responseA |-> None, responseB |-> None]

ProbeBodies(operation) ==
  { b \in OtherBodies : Get(b, "operation", "") = operation }

\* the principal sends a confirm-upload to both deployments
TwinConfirm ==
  /\ twin.body = None
  /\ \E body \in ProbeBodies("complete_upload"), now \in Instants,
        db \in {"ok", "ClientError", "Exception"} :
       LET a == ConfirmUploadRun(twin.tableA, body, twin.principal, now, db)
           b == ConfirmUploadRun(twin.tableB, body, twin.principal, now, db)
       IN twin' = [twin EXCEPT !.body = body,
                     !.tableA = a.table, !.responseA = a.response,
                     !.tableB = b.table, !.responseB = b.response]
  /\ UNCHANGED <<table, pc, loc, response, calls, raised, request, applied, auth, server>>

\* the principal sends a request-download to both deployments
TwinDownload ==
  /\ twin.body = None
  /\ \E body \in ProbeBodies("get_download_url"), dbOk \in BOOLEAN,
        s3Ok \in BOOLEAN :
       twin' = [twin EXCEPT !.body = body,
                  !.responseA = DownloadRun(twin.tableA, body, twin.principal,
                                            dbOk, s3Ok),
                  !.responseB = DownloadRun(twin.tableB, body, twin.principal,
                                            dbOk, s3Ok)]
  /\ UNCHANGED <<table, pc, loc, response, calls, raised, request, applied, auth, server>>

NextTwin == TwinConfirm \/ TwinDownload

SpecTwin == InitTwin /\ [][NextTwin]_vars

(***************************************************************************)
(* generate_file_id applied twice, for one owner and one name, at the      *)
(* instants its two calls read from the clock.                             *)
(***************************************************************************)
\* the instants of the clock are 0..MaxInstant
MaxInstant == 4

NamePdf == <<"b",".","p","d","f">>
NameInDir == <<"d","/","a",".","j","p","g">>
FileIdNames == {NameJpg, NamePdf, NameInDir}

InitFileId ==
  /\ table = << >>
  /\ pc = [r \in Slots |-> "idle"]
  /\ loc = [r \in Slots |-> NoLocals]
  /\ response = [r \in Slots |-> None]
  /\ calls = [r \in Slots |-> <<>>]
  /\ raised = [r \in Slots |-> <<>>]
  /\ auth = None
  /\ server = None
  /\ twin = None
  /\ request = None
  /\ \E u \in Users, n \in FileIdNames, t1 \in 0..MaxInstant, t2 \in 0..MaxInstant :
       applied = [user_id |-> u, filename |-> n, t1 |-> t1, t2 |-> t2,
                  id1 |-> None, id2 |-> None]

\* the two calls generate_file_id(user_id, filename) return
GenerateFileIds ==
  /\ applied.id1 = None
  /\ applied' = [applied EXCEPT
                   !.id1 = generate_file_id(applied.user_id, applied.filename,
                                            applied.t1),
                   !.id2 = generate_file_id(applied.user_id, applied.filename,
                                            applied.t2)]
  /\ UNCHANGED <<table, pc, loc, response, calls, raised, twin, request, auth, server>>

NextFileId == GenerateFileIds

SpecFileId == InitFileId /\ [][NextFileId]_vars


(***************************************************************************)
(* One invocation at a time, with the event it handles kept in request.    *)
(* The events range over every shape of the headers and of the credential, *)
(* and the uploads of u1 over several declared names.                      *)
(***************************************************************************)
SeqSlot == "r1"

\* event['headers']: null, an empty dict, or a dict with Authorization
SeqHeaders ==
  { None, << >> }
    \cup { [Authorization |-> a] :
             a \in AuthHeaders \cup { <<"bearer", "tok_u1">>, <<"Bearer", "">>,
                                      <<"Bearer", "tok_forged_u2">>,
                                      <<"Bearer", "tok_nosub">> } }

SeqUploadBody(name) ==
  [operation |-> "get_upload_url",
   file_info |-> [name |-> name, size |-> 10, type |-> "image/jpeg"],
   metadata |-> [title |-> <<"t">>]]

\* bodies that ask for an expiry of their own
SeqBodiesWithExpiry ==
  { SeqUploadBody(NameJpg) @@ [expires_in |-> 86400] }
    \cup { [operation |-> "get_download_url", file_id |-> f, expires_in |-> 86400] :
              f \in FileIdInputs }

SeqEvents ==
  { [httpMethod |-> "OPTIONS"], [httpMethod |-> "POST"] }
    \cup
  { [httpMethod |-> "OPTIONS", headers |-> h, body |-> b] :
      h \in { None, [Authorization |-> <<"Bearer", "garbage">>] },
      b \in { [invalid_json |-> TRUE], SeqUploadBody(NameJpg) } }
    \cup
  { [httpMethod |-> "POST", headers |-> h, body |-> b] :
      h \in SeqHeaders,
      b \in { SeqUploadBody(NameJpg), [operation |-> "complete_upload"] } }
    \cup
  \* a null body, and a body that is no JSON text, under every credential
  { [httpMethod |-> "POST", headers |-> [Authorization |-> a], body |-> b] :
      a \in AuthHeaders, b \in { None, [invalid_json |-> TRUE] } }
    \cup
  { [httpMethod |-> "POST", headers |-> [Authorization |-> <<"Bearer", "tok_u1">>],
     body |-> b] :
      b \in { SeqUploadBody(n) : n \in {NameJpg, NamePdf, NameInDir, NameExe} }
              \cup OtherBodies \cup SeqBodiesWithExpiry }
    \cup
  { [httpMethod |-> "POST", headers |-> [Authorization |-> <<"Bearer", "tok_u2">>],
     body |-> b] :
      b \in { SeqUploadBody(NameJpg) } \cup OtherBodies }

SeqInputs ==
  { [event |-> e, idpUp |-> up, now |-> t] :
      e \in SeqEvents, up \in BOOLEAN, t \in Instants }

\* what handler does with each input, up to its first table or S3 call
SeqOutcome == [in \in SeqInputs |-> HandlerOutcome(in.event, in.idpUp, in.now)]

\* the invocation starts on an event and runs to its first table or S3 call
Invoke ==
  /\ pc[SeqSlot] \in {"idle", "done"}
  /\ \E in \in SeqInputs :
       /\ pc' = [pc EXCEPT ![SeqSlot] = SeqOutcome[in].pc]
       /\ loc' = [loc EXCEPT ![SeqSlot] = SeqOutcome[in].loc]
       /\ response' = [response EXCEPT ![SeqSlot] = SeqOutcome[in].response]
       /\ calls' = [calls EXCEPT ![SeqSlot] = SeqOutcome[in].calls]
       /\ raised' = [raised EXCEPT ![SeqSlot] = SeqOutcome[in].raised]
       /\ request' = in
  /\ UNCHANGED <<table, twin, applied, auth, server>>

NextSeq ==
  \/ Invoke
  \/ SignUpload(SeqSlot)
  \/ PutItem(SeqSlot)
  \/ UpdateItem(SeqSlot)
  \/ GetItem(SeqSlot)
  \/ SignDownload(SeqSlot)

SpecSeq == Init /\ [][NextSeq]_vars


(***************************************************************************)
(* validate_file applied to one declared file.                             *)
(***************************************************************************)
\* the declared sizes lie within SizeMargin of the maximum, or are small
SizeMargin == 1
ValidateSizes ==
  {0, 10} \cup (MAX_FILE_SIZE - SizeMargin)..(MAX_FILE_SIZE + SizeMargin)

\* a name of n characters that ends with ext
LongName(n, ext) == [i \in 1..(n - Len(ext)) |-> "a"] \o ext

ValidateNames ==
  { NameJpg, NamePdf, NameExe, NameInDir, <<>>,
    LongName(MaxNameLen, <<".","j","p","g">>),
    LongName(MaxNameLen + 1, <<".","j","p","g">>),
    LongName(MaxNameLen + 1, <<".","e","x","e">>),
    <<"A",".","J","P","G">>, <<"a",".","J","p","g">>, <<"c",".","M","P","3">>,
    <<"a",".","j","p","g",".","e","x","e">>, <<"a",".","e","x","e",".","j","p","g">>,
    <<".","j","p","g">>, <<"j","p","g">>, <<"a",".">>, <<"a",".","j","p","g","x">>,
    <<"d",".","j","p","g","/","a">>, <<"a",".","j","p","g"," ">> }

ValidateTypes == {"image/jpeg", "application/octet-stream", "text/plain"}

InitValidate ==
  /\ table = << >>
  /\ pc = [r \in Slots |-> "idle"]
  /\ loc = [r \in Slots |-> NoLocals]
  /\ response = [r \in Slots |-> None]
  /\ calls = [r \in Slots |-> <<>>]
  /\ raised = [r \in Slots |-> <<>>]
  /\ auth = None
  /\ server = None
  /\ twin = None
  /\ request = None
  /\ \E n \in ValidateNames, s \in ValidateSizes, t \in ValidateTypes :
       applied = [file_info |-> [name |-> n, size |-> s, type |-> t],
                  returned |-> FALSE, errors |-> <<>>]

\* the call validate_file(file_info) returns
Validate ==
  /\ ~applied.returned
  /\ applied' = [applied EXCEPT !.returned = TRUE,
                                !.errors = validate_file(applied.file_info)]
  /\ UNCHANGED <<table, pc, loc, response, calls, raised, twin, request, auth, server>>

NextValidate == Validate

SpecValidate == InitValidate /\ [][NextValidate]_vars


(***************************************************************************)
(* One declared name taken through validate_file, create_signed_url and    *)
(* store_file_metadata, as handle_get_upload_url does.                     *)
(***************************************************************************)
\* str.upper()
UpperChar(c) ==
  IF \E i \in 1..26 : LowerChars[i] = c
  THEN UpperChars[CHOOSE i \in 1..26 : LowerChars[i] = c]
  ELSE c
Upper(s) == [i \in 1..Len(s) |-> UpperChar(s[i])]

\* every extension of the allow-list
ListedExtensions ==
  UNION { { ALLOWED_EXTENSIONS[Categories[c]][i] :
              i \in 1..Len(ALLOWED_EXTENSIONS[Categories[c]]) } :
          c \in 1..Len(Categories) }

\* names with every listed extension, in lower and in upper case, and names
\* without one
DeclaredNames ==
  { <<"f">> \o e : e \in ListedExtensions }
    \cup { <<"f">> \o Upper(e) : e \in ListedExtensions }
    \cup { NameExe, NameInDir, <<"f">>, <<".","j","p","g">>,
           <<"f",".","j","p","g",".","e","x","e">>, <<>> }

InitDeclared ==
  /\ table = << >>
  /\ pc = [r \in Slots |-> "idle"]
  /\ loc = [r \in Slots |-> NoLocals]
  /\ response = [r \in Slots |-> None]
  /\ calls = [r \in Slots |-> <<>>]
  /\ raised = [r \in Slots |-> <<>>]
  /\ auth = None
  /\ server = None
  /\ twin = None
  /\ request = None
  /\ \E n \in DeclaredNames, u \in Users :
       applied = [user_id |-> u,
                  file_info |-> [name |-> n, size |-> 10, type |-> "image/jpeg"],
                  returned |-> FALSE, errors |-> <<>>, url |-> None, item |-> None]

\* validate_file, then create_signed_url and the item of store_file_metadata
\* for the id generate_file_id gives
Declare ==
  /\ ~applied.returned
  /\ LET filename == applied.file_info.name
         file_id == generate_file_id(applied.user_id, filename, 0)
     IN applied' = [applied EXCEPT
          !.returned = TRUE,
          !.errors = validate_file(applied.file_info),
          !.url = create_signed_url(file_id, filename, applied.user_id,
                                    "put_object", TRUE),
          !.item = NewItem(file_id, applied.user_id, filename, applied.file_info,
                           [title |-> <<"t">>], 0)]
  /\ UNCHANGED <<table, pc, loc, response, calls, raised, twin, request, auth, server>>

NextDeclared == Declare

SpecDeclared == InitDeclared /\ [][NextDeclared]_vars


(***************************************************************************)
(* auth.py: the authentication handler, one invocation at a time, with the *)
(* Cognito user pool and the users table it calls.  auth holds the event,  *)
(* the position of the invocation (idle, the call it is about to make, or  *)
(* done), its response, the calls made and the exceptions raised, the      *)
(* users table and the user names signed up at the pool.                   *)
(***************************************************************************)
AuthRoutes == {"login", "register", "logout", "verify", "refresh"}
AuthPaths == AuthRoutes \cup {"unknown", ""}
Usernames == {"alice", "bob"}

\* a body that names every field any operation reads
CompleteBody(username) ==
  [username |-> username, password |-> "pw", email |-> "a@x", name |-> "A",
   access_token |-> "at", token |-> "at", refresh_token |-> "rt"]

\* the fields a sub-handler requires
RequiredFields(route) ==
  CASE route = "login" -> {"username", "password"}
    [] route = "register" -> {"username", "password", "email", "name"}
    [] route = "logout" -> {"access_token"}
    [] route = "verify" -> {"token"}
    [] route = "refresh" -> {"refresh_token"}

\* JSON objects in which each required field of route is absent, empty or
\* given
BodiesOf(route) ==
  { [f \in given |-> IF f \in empty THEN "" ELSE CompleteBody("alice")[f]] :
      given \in SUBSET RequiredFields(route), empty \in SUBSET RequiredFields(route) }

\* event['pathParameters']: null, an empty dict, or a dict with proxy
PathParameters ==
  { None, << >> } \cup { [proxy |-> p] : p \in AuthPaths }

AuthEvents ==
  \* every shape of the path under every method, and with none
  { [pathParameters |-> pp, httpMethod |-> m, body |-> CompleteBody(u)] :
      pp \in PathParameters, m \in {"POST", "GET"}, u \in Usernames }
    \cup
  { [pathParameters |-> pp, body |-> CompleteBody("alice")] : pp \in PathParameters }
    \cup
  { [httpMethod |-> "POST", body |-> CompleteBody("alice")] }
    \cup
  \* every operation with every choice of its fields, with a null body, with
  \* a body that is no JSON text, and with no body
  UNION { { [pathParameters |-> [proxy |-> r], httpMethod |-> "POST", body |-> b] :
              b \in BodiesOf(r) \cup { None, [invalid_json |-> TRUE] } } :
          r \in AuthRoutes }
    \cup
  { [pathParameters |-> [proxy |-> r], httpMethod |-> "POST"] : r \in AuthRoutes }

AuthDone(resp, ex) == [pc |-> "done", response |-> resp, raised |-> ex]
AuthCalling(call) == [pc |-> call, response |-> None, raised |-> <<>>]
AuthRaising(ex) == [pc |-> "raised", response |-> None, raised |-> ex]

\* the head of each sub-handler: json.loads(event.get('body', '{}')), which
\* raises on a null body and on a text that is no JSON, body.get of each
\* field, the check that none is missing or empty, and on to the first call
SubHandlerHead(event, route, error, call) ==
  LET body == Get(event, "body", << >>)
  IN IF body = None
     THEN AuthRaising(<<Exc("json.loads", "TypeError")>>)
     ELSE IF "invalid_json" \in DOMAIN body
     THEN AuthRaising(<<Exc("json.loads", "JSONDecodeError")>>)
     ELSE IF \E f \in RequiredFields(route) : Get(body, f, "") = ""
     THEN AuthDone(create_response(400, [error |-> error]), <<>>)
     ELSE AuthCalling(call)

handle_login(event) ==
  SubHandlerHead(event, "login", "Username and password are required",
                 "initiate_auth")
handle_register(event) ==
  SubHandlerHead(event, "register", "All fields are required", "sign_up")
handle_logout(event) ==
  SubHandlerHead(event, "logout", "Access token is required", "revoke_token")
handle_verify_token(event) ==
  SubHandlerHead(event, "verify", "Token is required", "get_user")
handle_refresh_token(event) ==
  SubHandlerHead(event, "refresh", "Refresh token is required", "initiate_auth")

\* handler's except clause: whatever escapes is answered 500
Escaped(ex) ==
  AuthDone(create_response(500, [error |-> "Internal server error"]), ex)

\* the path and the method handler reads from the event
PathOf(event) ==
  LET pp == Get(event, "pathParameters", << >>)
  IN IF pp = None THEN "" ELSE Get(pp, "proxy", "")
MethodOf(event) == Get(event, "httpMethod", "GET")

\* auth.handler up to the first call of the sub-handler it dispatches to.
\* .get on a null 'pathParameters' raises AttributeError.
AuthHandlerOutcome(event) ==
  LET path == PathOf(event)
      method == MethodOf(event)
      sub == IF path = "login" THEN handle_login(event)
             ELSE IF path = "register" THEN handle_register(event)
             ELSE IF path = "logout" THEN handle_logout(event)
             ELSE IF path = "verify" THEN handle_verify_token(event)
             ELSE handle_refresh_token(event)
  IN IF Get(event, "pathParameters", << >>) = None
     THEN Escaped(<<Exc("handler", "AttributeError")>>)
     ELSE IF path \in AuthRoutes /\ method = "POST"
     THEN IF sub.pc = "raised" THEN Escaped(sub.raised) ELSE sub
     ELSE AuthDone(create_response(404, [error |-> "Endpoint not found"]), <<>>)

AuthOutcomes == [e \in AuthEvents |-> AuthHandlerOutcome(e)]

InitAuth ==
  /\ table = << >>
  /\ pc = [r \in Slots |-> "idle"]
  /\ loc = [r \in Slots |-> NoLocals]
  /\ response = [r \in Slots |-> None]
  /\ calls = [r \in Slots |-> <<>>]
  /\ raised = [r \in Slots |-> <<>>]
  /\ twin = None
  /\ request = None
  /\ applied = None
  /\ auth = [pc |-> "idle", event |-> None, response |-> None, calls |-> <<>>,
             raised |-> <<>>, users |-> << >>, pool |-> {}]
  /\ server = None

NotAuth == <<table, pc, loc, response, calls, raised, twin, request, applied,
             server>>

\* handler(event, context), to the first call of the sub-handler
AuthHandler ==
  /\ auth.pc \in {"idle", "done"}
  /\ \E e \in AuthEvents :
       auth' = [auth EXCEPT !.event = e, !.pc = AuthOutcomes[e].pc,
                            !.response = AuthOutcomes[e].response,
                            !.calls = <<>>,
                            !.raised = AuthOutcomes[e].raised]
  /\ UNCHANGED NotAuth

\* the call returned and the sub-handler goes on to its next call
AuthGoesOn(call, next) ==
  [auth EXCEPT !.pc = next, !.calls = Append(@, call)]

\* the call ended the invocation: it returned and the sub-handler answered,
\* or it raised error and an except clause answered
AuthEnds(call, error, out) ==
  [auth EXCEPT !.pc = "done", !.calls = Append(@, call),
               !.response = out.response,
               !.raised = IF error = "ok" THEN @ ELSE Append(@, Exc(call, error))]

\* an error of a boto3 call that is no ClientError; the other errors of the
\* calls below are ClientErrors, named by their code
NoClientError == "EndpointConnectionError"

Tokens3 == [access_token |-> "at", refresh_token |-> "rt", id_token |-> "it"]

\* an except clause that answers every ClientError as bad credentials
LoginErrorAlwaysInvalid(code) ==
  create_response(401, [error |-> "Invalid credentials"])

\* the except clause of handle_login
LoginError(code) ==
  IF code = "NotAuthorizedException"
  THEN create_response(401, [error |-> "Invalid credentials"])
  ELSE IF code = "UserNotConfirmedException"
  THEN create_response(400, [error |-> "User not confirmed"])
  ELSE create_response(400, [error |-> code])

\* cognito_idp.initiate_auth of handle_login and of handle_refresh_token
InitiateAuth ==
  /\ auth.pc = "initiate_auth"
  /\ \E out \in {"ok", "NotAuthorizedException", "UserNotConfirmedException",
                 "TooManyRequestsException", NoClientError} :
       LET login == PathOf(auth.event) = "login"
       IN auth' =
            IF out = NoClientError
            THEN AuthEnds("initiate_auth", out, Escaped(<<>>))
            ELSE IF out # "ok"
            THEN AuthEnds("initiate_auth", out,
                   [response |-> IF login THEN LoginError(out)
                                 ELSE create_response(400, [error |-> out])])
            ELSE IF login
            THEN AuthGoesOn("initiate_auth", "get_item")
            ELSE AuthEnds("initiate_auth", "ok",
                   [response |-> create_response(200,
                      [access_token |-> "at", id_token |-> "it"])])
  /\ UNCHANGED NotAuth

\* get_user_details: dynamodb.get_item, None when the item is missing and
\* when the call raises a ClientError
GetUserDetails ==
  /\ auth.pc = "get_item"
  /\ \E out \in {"ok", "TooManyRequestsException", NoClientError} :
       LET username == auth.event.body.username
           user_details == IF out = "ok" /\ username \in DOMAIN auth.users
                           THEN auth.users[username] ELSE None
       IN auth' =
            IF out = NoClientError
            THEN AuthEnds("get_item", out, Escaped(<<>>))
            ELSE AuthEnds("get_item", out,
                   [response |-> create_response(200,
                      [message |-> "Login successful", tokens |-> Tokens3,
                       user |-> user_details])])
  /\ UNCHANGED NotAuth

\* the except clause of handle_register
RegisterError(code) ==
  IF code = "UsernameExistsException"
  THEN create_response(400, [error |-> "Username already exists"])
  ELSE IF code = "InvalidPasswordException"
  THEN create_response(400, [error |-> "Password does not meet requirements"])
  ELSE create_response(400, [error |-> code])

\* cognito_idp.sign_up: the pool takes a user name once
SignUp ==
  /\ auth.pc = "sign_up"
  /\ \E out \in {"ok", "UsernameExistsException", "InvalidPasswordException",
                 "TooManyRequestsException", NoClientError} :
       LET username == auth.event.body.username
       IN /\ out = "ok" => username \notin auth.pool
          /\ out = "UsernameExistsException" => username \in auth.pool
          /\ auth' =
               IF out = NoClientError
               THEN AuthEnds("sign_up", out, Escaped(<<>>))
               ELSE IF out # "ok"
               THEN AuthEnds("sign_up", out, [response |-> RegisterError(out)])
               ELSE [AuthGoesOn("sign_up", "put_item")
                       EXCEPT !.pool = @ \cup {username}]
  /\ UNCHANGED NotAuth

\* the item store_user_details puts; get_current_timestamp reads 0
UserDetails(body) ==
  [user_id |-> body.username, name |-> body.name, email |-> body.email,
   created_at |-> 0, role |-> "family_member"]

\* store_user_details: dynamodb.put_item, whose ClientError is printed and
\* dropped
StoreUserDetails ==
  /\ auth.pc = "put_item"
  /\ \E out \in {"ok", "TooManyRequestsException", NoClientError} :
       LET body == auth.event.body
           stored == [u \in DOMAIN auth.users \cup {body.username} |->
                        IF u = body.username THEN UserDetails(body)
                        ELSE auth.users[u]]
       IN auth' =
            IF out = NoClientError
            THEN AuthEnds("put_item", out, Escaped(<<>>))
            ELSE [AuthEnds("put_item", out,
                    [response |-> create_response(200,
                       [message |-> "Registration successful. Please check your email for confirmation.",
                        user_id |-> <<"sub", body.username>>])])
                    EXCEPT !.users = IF out = "ok" THEN stored ELSE @]
  /\ UNCHANGED NotAuth

\* cognito_idp.revoke_token of handle_logout
RevokeToken ==
  /\ auth.pc = "revoke_token"
  /\ \E out \in {"ok", "NotAuthorizedException", NoClientError} :
       auth' =
         IF out = NoClientError
         THEN AuthEnds("revoke_token", out, Escaped(<<>>))
         ELSE AuthEnds("revoke_token", out,
                [response |-> IF out = "ok"
                              THEN create_response(200, [message |-> "Logout successful"])
                              ELSE create_response(400, [error |-> out])])
  /\ UNCHANGED NotAuth

\* cognito_idp.get_user of handle_verify_token
GetUser ==
  /\ auth.pc = "get_user"
  /\ \E out \in {"ok", "NotAuthorizedException", NoClientError} :
       auth' =
         IF out = NoClientError
         THEN AuthEnds("get_user", out, Escaped(<<>>))
         ELSE AuthEnds("get_user", out,
                [response |-> IF out = "ok"
                              THEN create_response(200,
                                     [valid |-> TRUE, user |-> [username |-> "alice"]])
                              ELSE create_response(200,
                                     [valid |-> FALSE, error |-> out])])
  /\ UNCHANGED NotAuth

NextAuth ==
  \/ AuthHandler
  \/ InitiateAuth
  \/ GetUserDetails
  \/ SignUp
  \/ StoreUserDetails
  \/ RevokeToken
  \/ GetUser

SpecAuth == InitAuth /\ [][NextAuth]_vars



(***************************************************************************)
(* src/backend/local_server.py: the development server, which keeps the    *)
(* uploaded files in a folder and one row per file in the SQLite table     *)
(* files.  Every route runs its statements in one connection and returns,  *)
(* so a request is one step.                                               *)
(***************************************************************************)
UPLOAD_FOLDER == <<"u","p","l","o","a","d","s">>

\* the values uuid.uuid4() is drawn from
FileUuids == { <<"i","1">>, <<"i","2">> }
\* request.args (request.form of an upload): with a user_id, and without
UserArgs ==
  { [user_id |-> u] : u \in {"dev-user-001", "dev-user-002"} }
    \cup { [page |-> "1"] }
\* the uploads the server is sent, at most
MaxUploads == 2

\* request.args.get('user_id', 'dev-user-001')
UserIdOf(args) == Get(args, "user_id", "dev-user-001")

\* str.strip(chars)
Strip(s, chars) ==
  LET kept == {i \in 1..Len(s) : s[i] \notin chars}
  IN IF kept = {} THEN <<>>
     ELSE SubSeq(s, CHOOSE i \in kept : \A j \in kept : i <= j,
                    CHOOSE i \in kept : \A j \in kept : i >= j)

\* "_".join(s.split()): the words of s, joined by one underscore
RECURSIVE JoinWords(_, _)
JoinWords(s, i) ==
  IF i > Len(s) THEN <<>>
  ELSE IF s[i] # " " THEN <<s[i]>> \o JoinWords(s, i + 1)
  ELSE IF /\ \E j \in 1..(i-1) : s[j] # " "
          /\ i < Len(s)
          /\ s[i+1] # " "
       THEN <<"_">> \o JoinWords(s, i + 1)
       ELSE JoinWords(s, i + 1)

\* werkzeug.utils.secure_filename on a name of the model's alphabet: the
\* separators become blanks, the words are joined by underscores, and
\* leading and trailing dots and underscores are stripped
secure_filename(filename) ==
  LET blanked == [i \in 1..Len(filename) |->
                    IF filename[i] = "/" THEN " " ELSE filename[i]]
  IN Strip(JoinWords(blanked, 1), {".", "_"})

\* the file parts of an upload request; None is a request without one
UploadParts ==
  {None}
    \cup { [filename |-> n, size |-> 10, content_type |-> "image/jpeg"] :
             n \in {NameJpg, NameInDir, <<>>} }
    \cup { [filename |-> NameJpg, size |-> MAX_FILE_SIZE + 1,
            content_type |-> "image/jpeg"] }

\* jsonify(body), status
jsonify(body, status) == [status |-> status, body |-> body]

\* the outcome of the SQLite calls of a request: they succeed, or one of
\* them raises
SqliteOutcomes == {"ok", "OperationalError"}

\* the answer of every route's except clause
ServerError(e) == jsonify([error |-> e], 500)

InitLocal ==
  /\ table = << >>
  /\ pc = [r \in Slots |-> "idle"]
  /\ loc = [r \in Slots |-> NoLocals]
  /\ response = [r \in Slots |-> None]
  /\ calls = [r \in Slots |-> <<>>]
  /\ raised = [r \in Slots |-> <<>>]
  /\ twin = None
  /\ request = None
  /\ applied = None
  /\ auth = None
  /\ server = [files |-> << >>, disk |-> << >>, now |-> 0, op |-> None,
               response |-> None]

NotServer == <<table, pc, loc, response, calls, raised, twin, request, applied,
               auth>>

\* what a request leaves behind: the rows, the folder, the clock, the
\* request itself and its response
Served(files, disk, now, op, resp) ==
  [files |-> files, disk |-> disk, now |-> now, op |-> op, response |-> resp]

\* POST /api/upload
upload_file ==
  /\ server.now < MaxUploads
  /\ \E file \in UploadParts, args \in UserArgs, file_id \in FileUuids,
        db \in SqliteOutcomes :
       LET op == [name |-> "upload_file", file |-> file, args |-> args]
           untouched(resp) ==
             Served(server.files, server.disk, server.now, op, resp)
       IN server' =
            IF file = None
            THEN untouched(jsonify([error |-> "No file provided"], 400))
            ELSE IF file.filename = <<>>
            THEN untouched(jsonify([error |-> "No file selected"], 400))
            ELSE IF file.size > MAX_FILE_SIZE
            THEN untouched(jsonify([error |-> "File too large"], 400))
            ELSE
              LET user_id == UserIdOf(args)
                  original_filename == secure_filename(file.filename)
                  file_extension == SplitExt(original_filename)
                  stored_filename == file_id \o file_extension
                  file_path == UPLOAD_FOLDER \o <<"/">> \o stored_filename
                  now == server.now + 1
                  \* file.save(file_path)
                  saved == [p \in DOMAIN server.disk \cup {file_path} |->
                              IF p = file_path THEN now ELSE server.disk[p]]
                  row == [id |-> file_id, filename |-> stored_filename,
                          original_filename |-> original_filename,
                          file_size |-> file.size,
                          file_type |-> file.content_type,
                          file_hash |-> now, uploaded_by |-> user_id,
                          uploaded_at |-> now, file_path |-> file_path,
                          is_deleted |-> 0]
                  inserted == [i \in DOMAIN server.files \cup {file_id} |->
                                 IF i = file_id THEN row ELSE server.files[i]]
              IN IF db # "ok"
                 THEN Served(server.files, saved, now, op, ServerError(db))
                 ELSE IF file_id \in DOMAIN server.files
                 \* id is the primary key of files
                 THEN Served(server.files, saved, now, op,
                             ServerError("IntegrityError"))
                 ELSE Served(inserted, saved, now, op,
                        jsonify([success |-> TRUE, file_id |-> file_id,
                                 filename |-> original_filename,
                                 file_size |-> file.size,
                                 message |-> "File uploaded successfully"], 200))
  /\ UNCHANGED NotServer

\* the rows a SELECT of list_files returns, ORDER BY uploaded_at DESC
ListedRows(files, user_id) ==
  LET ids == {i \in DOMAIN files :
                files[i].uploaded_by = user_id /\ files[i].is_deleted = 0}
      order == CHOOSE s \in [1..Cardinality(ids) -> ids] :
                 /\ \A i \in ids : \E k \in DOMAIN s : s[k] = i
                 /\ \A k \in 1..(Cardinality(ids) - 1) :
                      files[s[k]].uploaded_at >= files[s[k+1]].uploaded_at
  IN [k \in 1..Cardinality(ids) |->
        [id |-> order[k], filename |-> files[order[k]].original_filename,
         file_size |-> files[order[k]].file_size,
         file_type |-> files[order[k]].file_type,
         uploaded_at |-> files[order[k]].uploaded_at]]

\* GET /api/files
list_files ==
  /\ \E args \in UserArgs, db \in SqliteOutcomes :
       LET op == [name |-> "list_files", args |-> args]
           resp == IF db # "ok" THEN ServerError(db)
                   ELSE jsonify([success |-> TRUE,
                                 files |-> ListedRows(server.files, UserIdOf(args))],
                                200)
       IN server' = Served(server.files, server.disk, server.now, op, resp)
  /\ UNCHANGED NotServer

\* a WHERE clause without its is_deleted = 0
LiveRowDeletedToo(files, file_id, user_id) ==
  /\ file_id \in DOMAIN files
  /\ files[file_id].uploaded_by = user_id

\* the row the SELECT of download_file and the UPDATE of delete_file match
LiveRow(files, file_id, user_id) ==
  /\ file_id \in DOMAIN files
  /\ files[file_id].uploaded_by = user_id
  /\ files[file_id].is_deleted = 0

\* GET /api/files/<file_id>
download_file ==
  /\ \E file_id \in FileUuids, args \in UserArgs, db \in SqliteOutcomes :
       LET op == [name |-> "download_file", file_id |-> file_id, args |-> args]
           resp ==
             IF db # "ok" THEN ServerError(db)
             ELSE IF ~LiveRow(server.files, file_id, UserIdOf(args))
             THEN jsonify([error |-> "File not found"], 404)
             ELSE IF server.files[file_id].file_path \notin DOMAIN server.disk
             THEN jsonify([error |-> "File not found on disk"], 404)
             ELSE \* send_file
                  [status |-> 200,
                   file |-> [path |-> server.files[file_id].file_path,
                             download_name |-> server.files[file_id].original_filename,
                             mimetype |-> server.files[file_id].file_type,
                             content |-> server.disk[server.files[file_id].file_path]]]
       IN server' = Served(server.files, server.disk, server.now, op, resp)
  /\ UNCHANGED NotServer

\* UPDATE files SET is_deleted = 1 WHERE id = ? AND uploaded_by = ? AND
\* is_deleted = 0: the rows after it
SoftDelete(files, file_id, user_id) ==
  IF LiveRow(files, file_id, user_id)
  THEN [files EXCEPT ![file_id].is_deleted = 1]
  ELSE files

\* DELETE /api/files/<file_id>; an UPDATE that is not committed is rolled back
delete_file ==
  /\ \E file_id \in FileUuids, args \in UserArgs, db \in SqliteOutcomes :
       LET op == [name |-> "delete_file", file_id |-> file_id, args |-> args]
           user_id == UserIdOf(args)
       IN server' =
            IF db # "ok"
            THEN Served(server.files, server.disk, server.now, op, ServerError(db))
            ELSE IF SoftDelete(server.files, file_id, user_id) = server.files
            \* cursor.rowcount == 0
            THEN Served(server.files, server.disk, server.now, op,
                        jsonify([error |-> "File not found"], 404))
            ELSE Served(SoftDelete(server.files, file_id, user_id), server.disk,
                        server.now, op,
                        jsonify([success |-> TRUE,
                                 message |-> "File deleted successfully"], 200))
  /\ UNCHANGED NotServer

NextLocal ==
  \/ upload_file
  \/ list_files
  \/ download_file
  \/ delete_file

SpecLocal == InitLocal /\ [][NextLocal]_vars


(***************************************************************************)
(* Properties.                                                             *)
(***************************************************************************)
\* the primary key an invocation addresses
KeyOf(r) == PrimaryKey(loc[r].file_id, loc[r].user_id)

\* invocation r makes its step from position p
Steps(r, p) == pc[r] = p /\ pc'[r] # p

\* C1: a create (the put_item of store_file_metadata) at a key that already
\* holds a record fails and leaves the record that was there unchanged.
C1_DuplicateCreateFails ==
  [][\A r \in Slots :
       (Steps(r, "put_item") /\ KeyOf(r) \in DOMAIN table)
         => /\ response'[r].statusCode # 200
            /\ table' = table]_vars

\* C2: the status of a record only ever moves from uploading to completed,
\* only by a confirm-upload, and a completed record never shows uploading again.
C2_StatusOnlyAdvances ==
  [][\A k \in DOMAIN table :
       /\ k \in DOMAIN table'
       /\ table'[k].status # table[k].status
            => /\ table[k].status = "uploading"
               /\ table'[k].status = "completed"
               /\ \E r \in Slots : Steps(r, "update_item") /\ KeyOf(r) = k]_vars

\* some other principal owns a record with the file_id invocation r names
OwnedByOther(r) ==
  \E k \in DOMAIN table :
    k[1] = loc[r].file_id /\ table[k].user_id # loc[r].user_id

C5_NoExistenceLeak ==
  /\ twin.responseA = twin.responseB
  /\ Partition(twin.tableA, twin.principal) = Partition(twin.tableB, twin.principal)

\* C5 witness: the principal probed, with a confirm-upload, a file_id another
\* owner holds in deployment A and nobody holds in deployment B, and was
\* answered 404 in A
C5_Witness ==
  /\ twin.body # None
  /\ twin.body.operation = "complete_upload"
  /\ "file_id" \in DOMAIN twin.body
  /\ \E k \in DOMAIN twin.tableA :
       k[1] = twin.body.file_id /\ k[2] # twin.principal
  /\ \A k \in DOMAIN twin.tableB : k[1] # twin.body.file_id
  /\ twin.responseA.statusCode = 404

\* an invocation at position p with locals l and response resp is a
\* request-upload that has returned 200
IsUploadSuccess(p, l, resp) ==
  /\ p = "done"
  /\ l.operation = "get_upload_url"
  /\ resp.statusCode = 200
UploadSucceeded(r) == IsUploadSuccess(pc[r], loc[r], response[r])

\* C6: every 200 of request-upload is backed by a record: when it is returned
\* the table holds a record at (caller, returned file_id) in status uploading,
\* and the record stays; when the create fails after the URL was issued the
\* response is a 500 that carries neither upload_url nor file_id.
C6_SuccessIsBacked ==
  [][\A r \in Slots :
       /\ Steps(r, "put_item")
            => \/ /\ response'[r].statusCode = 200
                  /\ response'[r].body.file_id = loc[r].file_id
                  /\ response'[r].body.upload_url = loc[r].url
                  /\ KeyOf(r) \in DOMAIN table'
                  /\ table'[KeyOf(r)].user_id = loc[r].user_id
                  /\ table'[KeyOf(r)].file_id = loc[r].file_id
                  /\ table'[KeyOf(r)].status = "uploading"
               \/ /\ response'[r].statusCode = 500
                  /\ DOMAIN response'[r].body = {"error"}
                  /\ table' = table
       /\ IsUploadSuccess(pc'[r], loc'[r], response'[r])
            => PrimaryKey(loc'[r].file_id, loc'[r].user_id) \in DOMAIN table']_vars

\* C6 witness: a request-upload has returned 200 and its record is in the
\* table in status uploading
C6_Witness ==
  \E r \in Slots :
    /\ UploadSucceeded(r)
    /\ KeyOf(r) \in DOMAIN table
    /\ table[KeyOf(r)].status = "uploading"

\* the rules of section 4.1 that a file_info violates
AllowedExtensions ==
  UNION { { ALLOWED_EXTENSIONS[c][i] : i \in 1..Len(ALLOWED_EXTENSIONS[c]) } :
            c \in DOMAIN ALLOWED_EXTENSIONS }
ViolatedRules(file_info) ==
  (IF file_info.size > MAX_FILE_SIZE THEN {SizeError} ELSE {})
    \cup (IF Lower(SplitExt(file_info.name)) \notin AllowedExtensions
          THEN {TypeError} ELSE {})
    \cup (IF Len(file_info.name) = 0 \/ Len(file_info.name) > MaxNameLen
          THEN {NameError} ELSE {})
ViolationsOfInputs == [fi \in FileInfos |-> ViolatedRules(fi)]
Violations(file_info) == ViolationsOfInputs[file_info]

\* an invocation with locals l is a request-upload whose file_info violates
\* a rule
IsInvalidUpload(l) ==
  /\ l.operation = "get_upload_url"
  /\ Violations(l.file_info) # {}
InvalidUpload(r) == IsInvalidUpload(loc[r])

\* C7: a request-upload whose file_info violates a rule is rejected with 400
\* listing every violated rule, and has no side effects: no file_id, no call
\* to S3 or to the table, no record created or changed.
C7_InvalidUploadRejected ==
  [][\A r \in Slots :
       IsInvalidUpload(loc'[r]) =>
         /\ pc'[r] = "done"
         /\ response'[r].statusCode = 400
         /\ LET details == response'[r].body.details
            IN /\ { details[i] : i \in 1..Len(details) }
                    = Violations(loc'[r].file_info)
               /\ Len(details) = Cardinality(Violations(loc'[r].file_info))
         /\ loc'[r].file_id = <<>>
         /\ loc'[r].url = None
         /\ \A i \in 1..Len(calls'[r]) : calls'[r][i] = "get_user"
         /\ (<<pc[r], loc[r], response[r]>> # <<pc'[r], loc'[r], response'[r]>>
               => table' = table)]_vars

\* C7 witness: a request-upload that violates all three rules was answered
\* 400 while the table holds a record
C7_Witness ==
  \E r \in Slots :
    /\ pc[r] = "done"
    /\ InvalidUpload(r)
    /\ response[r].statusCode = 400
    /\ Len(response[r].body.details) = 3
    /\ DOMAIN table # {}

\* C8: when issuing the write URL fails, request-upload returns 500 and the
\* table is left as it was: no record for the generated file_id exists
\* afterwards.
C8_UrlFailureLeavesNoRecord ==
  [][\A r \in Slots :
       (Steps(r, "sign_put") /\ pc'[r] = "done")
         => /\ response'[r].statusCode = 500
            /\ table' = table
            /\ KeyOf(r) \notin DOMAIN table']_vars

\* C9: the write URL is issued before the record is created: whenever a
\* record in status uploading is written, it is written by a request-upload
\* that holds the URL it obtained, and no request-upload is about to create
\* its record without one.
C9_UrlBeforeRecord ==
  [][/\ \A k \in DOMAIN table' :
          ((k \notin DOMAIN table \/ table'[k] # table[k])
             /\ table'[k].status = "uploading")
            => \E r \in Slots :
                 /\ Steps(r, "put_item")
                 /\ KeyOf(r) = k
                 /\ loc[r].url # None
                 /\ loc[r].url.method = "put_object"
                 /\ loc[r].url.Key = table'[k].s3_key
     /\ \A r \in Slots : pc'[r] = "put_item" => loc'[r].url # None]_vars

\* C9 witness: a request-upload holds its upload URL while no record exists
\* yet at its key
C9_Witness ==
  \E r \in Slots :
    /\ pc[r] = "put_item"
    /\ loc[r].url # None
    /\ KeyOf(r) \notin DOMAIN table

\* C10: no two successful request-upload requests are given the same file_id.
C10_FileIdsUnique ==
  \A r1, r2 \in Slots :
    (r1 # r2 /\ UploadSucceeded(r1) /\ UploadSucceeded(r2))
      => response[r1].body.file_id # response[r2].body.file_id

\* s starts with p
StartsWith(s, p) == Len(s) >= Len(p) /\ SubSeq(s, 1, Len(p)) = p

\* C11: for every owner and name, the ids generated at two different instants
\* differ, and every generated id is the owner id, then '_', then a
\* fingerprint of 8 characters.
C11_IdsDifferAcrossInstants ==
  applied.id1 # None =>
    /\ (applied.t1 # applied.t2 => applied.id1 # applied.id2)
    /\ StartsWith(applied.id1, applied.user_id \o <<"_">>)
    /\ Len(applied.id1) = Len(applied.user_id) + 1 + FingerprintLen

ConfirmsSameRecord(r, q) ==
  /\ q # r
  /\ loc[q].operation = "complete_upload"
  /\ pc[q] \in {"update_item", "done"}
  /\ KeyOf(q) = KeyOf(r)

\* the attributes a confirm-upload sets
ConfirmSets == {"status", "last_modified"}

ImmutableFields == {"file_id", "user_id", "file_type", "s3_key"}

\* C14: the fields file_id, owner_id, category and object_key of a record keep
\* the value they had when the record was created, whatever request-upload,
\* confirm-upload and request-download requests follow.
C14_IdentityFieldsImmutable ==
  [][\A k \in DOMAIN table :
       /\ k \in DOMAIN table'
       /\ \A a \in ImmutableFields : table'[k][a] = table[k][a]]_vars

\* C15: two records have the same object_key only if they have the same
\* (owner_id, file_id): the key uploads/{owner_id}/{file_id}/{declared_name}
\* never makes two distinct records share a storage location.
C15_ObjectKeysDistinct ==
  \A k1, k2 \in DOMAIN table :
    table[k1].s3_key = table[k2].s3_key
      => /\ table[k1].user_id = table[k2].user_id
         /\ table[k1].file_id = table[k2].file_id
         /\ k1 = k2

\* C15 witness: two owners each hold a record for the same declared name, and
\* one of them holds a second record
C15_Witness ==
  \E k1, k2, k3 \in DOMAIN table :
    /\ table[k1].user_id # table[k2].user_id
    /\ table[k1].filename = table[k2].filename
    /\ k3 # k1
    /\ table[k3].user_id = table[k1].user_id

\* the event, and the Authorization header as split(' ') sees it, of the
\* invocation under way
RequestEvent == request.event
RequestHeaders == Get(RequestEvent, "headers", << >>)
RequestAuthorization ==
  IF RequestHeaders = None THEN <<"">>
  ELSE Get(RequestHeaders, "Authorization", <<"">>)
IsOptions == Get(RequestEvent, "httpMethod", "") = "OPTIONS"

\* the Authorization header has the form 'Bearer <token>'
HasBearerForm ==
  /\ Len(RequestAuthorization) >= 2
  /\ RequestAuthorization[1] = "Bearer"
  /\ RequestAuthorization[2] # ""

\* C16: every non-OPTIONS request whose Authorization header is absent or is
\* not of the form 'Bearer <token>' is answered 401 before anything else
\* happens: no call to the identity provider, the table or S3, no operation
\* dispatched.
C16_MalformedHeaderIs401 ==
  (request # None /\ ~IsOptions /\ ~HasBearerForm)
    => /\ pc[SeqSlot] = "done"
       /\ response[SeqSlot].statusCode = 401
       /\ calls[SeqSlot] = <<>>
       /\ loc[SeqSlot] = NoLocals

\* the ways the verification of a token fails: the token is no JWT, the
\* provider rejects it (expired, revoked), the provider does not answer
VerificationFails ==
  LET token == RequestAuthorization[2]
  IN \/ token \in {"garbage", ""}
     \/ token \in {"tok_expired", "tok_forged_u2", "tok_nosub"}
     \/ ~request.idpUp

\* C17: whatever makes the verification of the token fail, the handler
\* returns the same 401 response, dispatches no operation and touches no
\* store.
C17_UniformRejection ==
  (request # None /\ ~IsOptions /\ RequestHeaders # None
     /\ StartsWithBearer(RequestAuthorization) /\ VerificationFails)
    => /\ pc[SeqSlot] = "done"
       /\ response[SeqSlot]
            = create_response(401, [error |-> "Invalid or expired token"])
       /\ loc[SeqSlot] = NoLocals
       /\ \A i \in 1..Len(calls[SeqSlot]) : calls[SeqSlot][i] = "get_user"

\* C17 witness: a request with a good token was answered 401 because the
\* provider did not answer, while the table holds a record of that user
C17_Witness ==
  /\ request # None
  /\ ~IsOptions
  /\ RequestAuthorization = <<"Bearer", "tok_u1">>
  /\ ~request.idpUp
  /\ "operation" \in DOMAIN request.event.body
  /\ response[SeqSlot].statusCode = 401
  /\ \E k \in DOMAIN table : k[2] = U1

\* C18: an OPTIONS request is answered with 200 and no body, whatever its
\* headers, credential and body, with no authentication check and no call
\* to a collaborator.
C18_OptionsIsEmpty200 ==
  (request # None /\ IsOptions)
    => /\ pc[SeqSlot] = "done"
       /\ response[SeqSlot].statusCode = 200
       /\ response[SeqSlot].body = << >>
       /\ calls[SeqSlot] = <<>>
       /\ loc[SeqSlot] = NoLocals

\* the declared name has an allowed extension: it ends, whatever the case of
\* its letters, with an entry of the allow-list, and what precedes that entry
\* in its last path component is more than dots
EndsWithIgnoreCase(name, e) ==
  /\ Len(name) >= Len(e)
  /\ Lower(SubSeq(name, Len(name) - Len(e) + 1, Len(name))) = e
HasStem(name, e) ==
  \E i \in 1..(Len(name) - Len(e)) :
    /\ name[i] \notin {".", "/"}
    /\ \A j \in (i+1)..(Len(name) - Len(e)) : name[j] # "/"
HasAllowedExtension(name) ==
  \E e \in AllowedExtensions : EndsWithIgnoreCase(name, e) /\ HasStem(name, e)

\* C19: validate_file reports a size violation for every declared size above
\* the maximum and for none up to it, the maximum included; a file of a size
\* up to the maximum with an allowed extension gets neither a size nor a type
\* violation.
C19_SizeRule ==
  applied.returned =>
    /\ InList(SizeError, applied.errors) <=> applied.file_info.size > MAX_FILE_SIZE
    /\ (applied.file_info.size <= MAX_FILE_SIZE
          /\ HasAllowedExtension(applied.file_info.name))
         => ~InList(SizeError, applied.errors) /\ ~InList(TypeError, applied.errors)

\* C19 witness: a file of exactly the maximum size with an allowed extension
\* was validated without any violation
C19_Witness ==
  /\ applied.returned
  /\ applied.errors = <<>>
  /\ applied.file_info.size = MAX_FILE_SIZE

\* C20: validate_file reports a type violation exactly when the extension of
\* the declared name, compared without regard to case, is not in the
\* allow-list, whatever the declared size and content type.
C20_TypeRule ==
  applied.returned =>
    /\ InList(TypeError, applied.errors)
         <=> ~HasAllowedExtension(applied.file_info.name)
    /\ \A s \in ValidateSizes, t \in ValidateTypes :
         InList(TypeError, validate_file([applied.file_info EXCEPT
                                            !.size = s, !.type = t]))
           <=> InList(TypeError, applied.errors)

\* C20 witness: a name with an allowed extension in upper case, declared too
\* large, was given a size violation and no type violation
C20_Witness ==
  /\ applied.returned
  /\ applied.file_info.name = <<"A",".","J","P","G">>
  /\ applied.file_info.size > MAX_FILE_SIZE
  /\ InList(SizeError, applied.errors)
  /\ ~InList(TypeError, applied.errors)

\* the rules a declared file violates, each looked at on its own
RulesViolated(file_info) ==
  (IF file_info.size > MAX_FILE_SIZE THEN {SizeError} ELSE {})
    \cup (IF ~HasAllowedExtension(file_info.name) THEN {TypeError} ELSE {})
    \cup (IF file_info.name = <<>> \/ Len(file_info.name) > MaxNameLen
          THEN {NameError} ELSE {})

\* C21: validate_file reports an invalid-name violation exactly when the
\* declared name is empty or longer than 255 characters, and the three rules
\* are evaluated independently: the result is every violated rule, once each,
\* never only the first one.
C21_NameRuleAndUnion ==
  applied.returned =>
    /\ InList(NameError, applied.errors)
         <=> (Len(applied.file_info.name) = 0
                \/ Len(applied.file_info.name) > MaxNameLen)
    /\ { applied.errors[i] : i \in 1..Len(applied.errors) }
         = RulesViolated(applied.file_info)
    /\ Len(applied.errors) = Cardinality(RulesViolated(applied.file_info))

\* C21 witness: a name of 256 characters with an allowed extension, declared
\* too large, was given the size and the name violation and no other
C21_Witness ==
  /\ applied.returned
  /\ Len(applied.file_info.name) = MaxNameLen + 1
  /\ applied.errors = <<SizeError, NameError>>

\* the body of the request under way
RequestBody == Get(RequestEvent, "body", << >>)

\* C22: every URL issued, for write and for read, carries the expiry of 3600
\* seconds whatever the request says, and the expires_in that request-upload
\* and request-download return is the expiry of the URL they return.
C22_FixedExpiry ==
  /\ loc[SeqSlot].url # None => loc[SeqSlot].url.ExpiresIn = 3600
  /\ (pc[SeqSlot] = "done" /\ response[SeqSlot].statusCode = 200
        /\ "upload_url" \in DOMAIN response[SeqSlot].body)
       => /\ response[SeqSlot].body.upload_url.ExpiresIn = 3600
          /\ response[SeqSlot].body.expires_in
               = response[SeqSlot].body.upload_url.ExpiresIn
  /\ (pc[SeqSlot] = "done" /\ response[SeqSlot].statusCode = 200
        /\ "download_url" \in DOMAIN response[SeqSlot].body)
       => /\ response[SeqSlot].body.download_url.ExpiresIn = 3600
          /\ response[SeqSlot].body.expires_in
               = response[SeqSlot].body.download_url.ExpiresIn

\* C22 witness: a request-download that asked for an expiry of a day was
\* answered 200 with a read URL
C22_Witness ==
  /\ request # None
  /\ "expires_in" \in DOMAIN RequestBody
  /\ pc[SeqSlot] = "done"
  /\ response[SeqSlot].statusCode = 200
  /\ "download_url" \in DOMAIN response[SeqSlot].body

\* the category a content type belongs to
CategoryOfContentType(ct) ==
  IF ct[1] = "image/" THEN "image"
  ELSE IF ct[1] = "video/" THEN "video"
  ELSE IF ct[1] = "audio/" THEN "audio"
  ELSE IF ct[1] \in {"application/pdf", "application/msword"} THEN "document"
  ELSE "other"

\* the category of the allow-list the extension of a name is listed under
ListedCategory(name) ==
  CHOOSE c \in DOMAIN ALLOWED_EXTENSIONS :
    \E i \in 1..Len(ALLOWED_EXTENSIONS[c]) :
      /\ EndsWithIgnoreCase(name, ALLOWED_EXTENSIONS[c][i])
      /\ HasStem(name, ALLOWED_EXTENSIONS[c][i])

\* C23: for every declared name that passes validation, the content type of
\* the write URL belongs to the category stored for the file, which is the
\* category the allow-list has its extension under, and is never
\* application/octet-stream; that default is given only to names whose
\* extension is not in the allow-list.
C23_ContentTypeCoherent ==
  applied.returned =>
    /\ applied.errors = <<>>
         => /\ applied.url.ContentType # <<"application/octet-stream">>
            /\ CategoryOfContentType(applied.url.ContentType) = applied.item.file_type
            /\ applied.item.file_type = ListedCategory(applied.file_info.name)
    /\ applied.url.ContentType = <<"application/octet-stream">>
         => /\ ~HasAllowedExtension(applied.file_info.name)
            /\ applied.item.file_type = "other"

\* C23 witness: a name with a listed audio extension in upper case passed
\* validation and was given an audio content type
C23_Witness ==
  /\ applied.returned
  /\ applied.file_info.name = <<"f",".","M","P","3">>
  /\ applied.errors = <<>>
  /\ applied.url.ContentType = <<"audio/","m","p","3">>
  /\ applied.item.file_type = "audio"


\* the request under way carries a credential the identity provider accepts
Authenticated ==
  /\ RequestHeaders # None
  /\ HasBearerForm
  /\ ~VerificationFails

\* the exceptions of the invocation that S3 or the files table raised, the
\* failed condition of an update aside
DependencyErrors(r) ==
  SelectSeq(raised[r],
            LAMBDA x : /\ x.call \in {"generate_presigned_url", "put_item",
                                      "update_item", "get_item"}
                       /\ x.error # "ConditionalCheckFailedException")

\* C24: no failure is turned into a success.  Every 200 response to a request
\* that is not OPTIONS was given to an authenticated request none of whose
\* calls to S3, to the table or to anything else raised; and an invocation in
\* which something raised ends at once with a response that is not 200, and
\* that is 500 when S3 or the table failed.
C24_NoFailureBecomesSuccess ==
  request # None =>
    /\ (pc[SeqSlot] = "done" /\ response[SeqSlot].statusCode = 200 /\ ~IsOptions)
         => /\ Authenticated
            /\ raised[SeqSlot] = <<>>
    /\ raised[SeqSlot] # <<>>
         => /\ pc[SeqSlot] = "done"
            /\ response[SeqSlot].statusCode # 200
    /\ DependencyErrors(SeqSlot) # <<>> => response[SeqSlot].statusCode = 500

\* C24 witness: a confirm-upload of an authenticated principal whose
\* update_item raised an error that is no ClientError was answered 500
C24_Witness ==
  /\ request # None
  /\ Authenticated
  /\ pc[SeqSlot] = "done"
  /\ raised[SeqSlot] = <<Exc("update_item", "Exception")>>
  /\ response[SeqSlot].statusCode = 500


\* C25: the core never removes a record.  A key that holds a record holds a
\* record after every step of every request, so in every later state.
C25_RecordsNeverRemoved ==
  [][\A k \in DOMAIN table : k \in DOMAIN table']_vars

\* C25 witness: the table holds records of both users, one of them confirmed,
\* after a request of each kind has been served on top of them
C25_Witness ==
  /\ request # None
  /\ \E k1, k2 \in DOMAIN table :
       /\ k1[2] = U1 /\ k2[2] = U2
       /\ table[k1].status = "completed"
       /\ table[k2].status = "uploading"
  /\ pc[SeqSlot] = "done"
  /\ response[SeqSlot].statusCode = 200
  /\ "download_url" \in DOMAIN response[SeqSlot].body


\* the input req carries a credential the provider accepts and a JSON body
AuthenticatedJson(req) ==
  /\ req # None
  /\ LET h == Get(req.event, "headers", << >>)
         a == IF h = None THEN <<"">> ELSE Get(h, "Authorization", <<"">>)
         b == Get(req.event, "body", << >>)
     IN /\ Get(req.event, "httpMethod", "") # "OPTIONS"
        /\ h # None
        /\ StartsWithBearer(a)
        /\ TokenAccepted(a[2])
        /\ req.idpUp
        /\ b # None
        /\ "invalid_json" \notin DOMAIN b

\* the operation the body of the input req names
OperationOf(req) ==
  Get(Get(req.event, "body", << >>), "operation", "get_upload_url")

\* the input req is a confirm-upload or a request-download of an
\* authenticated principal whose file_id is missing or empty
MissingFileId(req) ==
  /\ AuthenticatedJson(req)
  /\ OperationOf(req) \in {"complete_upload", "get_download_url"}
  /\ LET file_id == Get(req.event.body, "file_id", None)
     IN file_id = None \/ file_id = <<>>

\* C26: a confirm-upload or request-download whose file_id is missing or
\* empty is answered 400 'Missing file_id' by the step that takes it up: the
\* invocation is over, its only call was the provider's get_user, and the
\* table is as it was.
C26_MissingFileIdIs400 ==
  [][MissingFileId(request')
       => /\ pc'[SeqSlot] = "done"
          /\ response'[SeqSlot] = create_response(400, [error |-> "Missing file_id"])
          /\ calls'[SeqSlot] = <<"get_user">>
          /\ raised'[SeqSlot] = <<>>
          /\ table' = table]_vars

\* C26 witness: a confirm-upload with an empty file_id was answered while the
\* table held a record of the caller still in state uploading
C26_Witness ==
  /\ MissingFileId(request)
  /\ OperationOf(request) = "complete_upload"
  /\ "file_id" \in DOMAIN request.event.body
  /\ pc[SeqSlot] = "done"
  /\ response[SeqSlot].statusCode = 400
  /\ \E k \in DOMAIN table : k[2] = U1 /\ table[k].status = "uploading"


\* the body of the request under way is no JSON text (json.loads has nothing
\* to parse, or fails to parse it), or it names an operation the handler does
\* not know
BodyIsNoJson == RequestBody = None \/ "invalid_json" \in DOMAIN RequestBody
UnknownOperation ==
  /\ ~BodyIsNoJson
  /\ Get(RequestBody, "operation", "get_upload_url")
       \notin {"get_upload_url", "complete_upload", "get_download_url"}

\* C27: a request whose body is not valid JSON, or whose operation is none of
\* get_upload_url, complete_upload and get_download_url, is answered 400 when
\* its credential is valid, with no operation dispatched and no store
\* touched, and 401 when it is not.
C27_BadBodyIs400 ==
  (request # None /\ ~IsOptions /\ RequestHeaders # None
     /\ (BodyIsNoJson \/ UnknownOperation))
    => /\ pc[SeqSlot] = "done"
       /\ loc[SeqSlot] = NoLocals
       /\ IF Authenticated
          THEN /\ response[SeqSlot].statusCode = 400
               /\ calls[SeqSlot] = <<"get_user">>
          ELSE /\ response[SeqSlot].statusCode = 401
               /\ calls[SeqSlot] \in {<<>>, <<"get_user">>}


\* the generate_presigned_url call of a request-download raises in this step
DownloadUrlFails ==
  /\ Steps(SeqSlot, "sign_get")
  /\ raised'[SeqSlot]
       = Append(raised[SeqSlot], Exc("generate_presigned_url", "Exception"))

\* C28: when the read URL of a request-download by the owner of an existing
\* record cannot be issued, create_signed_url returns None and no URL, the
\* response is 500 without a download_url, and the table is as it was.
C28_DownloadUrlFailureIsFatal ==
  [][DownloadUrlFails
       => /\ KeyOf(SeqSlot) \in DOMAIN table
          /\ create_signed_url(loc[SeqSlot].file_id,
                               loc[SeqSlot].file_item.filename,
                               loc[SeqSlot].user_id, "get_object", FALSE) = None
          /\ pc'[SeqSlot] = "done"
          /\ response'[SeqSlot].statusCode = 500
          /\ "download_url" \notin DOMAIN response'[SeqSlot].body
          /\ table' = table]_vars

\* C28 witness: a request-download of u1 for a record u1 owns ended 500
\* because the URL could not be issued
C28_Witness ==
  /\ AuthenticatedJson(request)
  /\ OperationOf(request) = "get_download_url"
  /\ "file_id" \in DOMAIN request.event.body
  /\ PrimaryKey(request.event.body.file_id, U1) \in DOMAIN table
  /\ pc[SeqSlot] = "done"
  /\ raised[SeqSlot] = <<Exc("generate_presigned_url", "Exception")>>
  /\ response[SeqSlot]
       = create_response(500, [error |-> "Failed to generate download URL"])


\* the event of the authentication request under way names one of the five
\* operations with POST
Routed ==
  PathOf(auth.event) \in AuthRoutes /\ MethodOf(auth.event) = "POST"

\* the sub-handler an invocation is in when it is about to make a call
SubHandlersOf(call) ==
  CASE call = "initiate_auth" -> {"login", "refresh"}
    [] call = "get_item" -> {"login"}
    [] call = "sign_up" -> {"register"}
    [] call = "put_item" -> {"register"}
    [] call = "revoke_token" -> {"logout"}
    [] call = "get_user" -> {"verify"}

\* an exception no sub-handler catches was raised: json.loads failed, or a
\* call raised an error that is no ClientError
EscapedSubHandler ==
  \E i \in 1..Len(auth.raised) :
    auth.raised[i].error \in {"TypeError", "JSONDecodeError", NoClientError}

\* C29: the authentication handler dispatches for login, register, logout,
\* verify and refresh with POST and for nothing else: an invocation that is
\* in a sub-handler or has made a call was routed to that sub-handler, every
\* other path or method is answered 404 'Endpoint not found' with no call
\* made, and an exception that escapes a sub-handler is answered 500
\* 'Internal server error'.
C29_DispatchTable ==
  auth.event # None =>
    /\ auth.pc \notin {"idle", "done"}
         => Routed /\ PathOf(auth.event) \in SubHandlersOf(auth.pc)
    /\ auth.calls # <<>> => Routed
    /\ ~Routed
         => /\ auth.pc = "done"
            /\ auth.response = create_response(404, [error |-> "Endpoint not found"])
            /\ auth.calls = <<>>
    /\ (Routed /\ EscapedSubHandler)
         => /\ auth.pc = "done"
            /\ auth.response
                 = create_response(500, [error |-> "Internal server error"])


\* the body of the authentication request under way: a JSON object, a text
\* that is no JSON, or None when the request has none
AuthBody == Get(auth.event, "body", << >>)

\* the request gives no value to a field the operation requires: it has no
\* body, or its body is an object in which the field is missing or empty
FieldMissing ==
  \/ AuthBody = None
  \/ /\ "invalid_json" \notin DOMAIN AuthBody
     /\ \E f \in RequiredFields(PathOf(auth.event)) :
          f \notin DOMAIN AuthBody \/ AuthBody[f] = ""

\* the answer of each operation to a missing field
FieldError(route) ==
  CASE route = "login" -> "Username and password are required"
    [] route = "register" -> "All fields are required"
    [] route = "logout" -> "Access token is required"
    [] route = "verify" -> "Token is required"
    [] route = "refresh" -> "Refresh token is required"

\* C30: login, register, logout, verify and refresh answer 400 to a request
\* in which a field they require is missing or empty, and they do so before
\* any call to the identity provider or to the users table.
C30_MissingFieldIs400 ==
  (auth.event # None /\ Routed /\ FieldMissing)
    => /\ auth.pc = "done"
       /\ auth.response
            = create_response(400, [error |-> FieldError(PathOf(auth.event))])
       /\ auth.calls = <<>>


\* the calls the authentication request under way has made
AuthCalled(call) == \E i \in 1..Len(auth.calls) : auth.calls[i] = call

\* the error initiate_auth raised in the login under way, "" when none
LoginRejection ==
  IF /\ auth.event # None
     /\ PathOf(auth.event) = "login"
     /\ \E i \in 1..Len(auth.raised) : auth.raised[i].call = "initiate_auth"
  THEN auth.raised[CHOOSE i \in 1..Len(auth.raised) :
                     auth.raised[i].call = "initiate_auth"].error
  ELSE ""

\* C31: when the identity provider rejects the authentication of a login, the
\* response is 401 for NotAuthorizedException and 400 for
\* UserNotConfirmedException and for every other error of the provider; and
\* whenever initiate_auth raised, the response carries no tokens and the
\* users table was not read.
C31_RejectedLoginGetsNoTokens ==
  LoginRejection # ""
    => /\ auth.pc = "done"
       /\ LoginRejection = "NotAuthorizedException"
            => auth.response = create_response(401, [error |-> "Invalid credentials"])
       /\ LoginRejection = "UserNotConfirmedException"
            => auth.response = create_response(400, [error |-> "User not confirmed"])
       /\ LoginRejection \notin {"NotAuthorizedException", "UserNotConfirmedException",
                                 NoClientError}
            => auth.response.statusCode = 400
       /\ auth.response.statusCode # 200
       /\ "tokens" \notin DOMAIN auth.response.body
       /\ ~AuthCalled("get_item")

\* C31 witness: the login of a user whose details are in the users table was
\* rejected because the user is not confirmed
C31_Witness ==
  /\ LoginRejection = "UserNotConfirmedException"
  /\ auth.event.body.username \in DOMAIN auth.users
  /\ auth.pc = "done"
  /\ auth.response.statusCode = 400


\* the fields a confirm-upload sets
ConfirmedFields == {"status", "last_modified"}

\* the update_item of a confirm-upload is answered 200 in this step
ConfirmSucceeds ==
  /\ Steps(SeqSlot, "update_item")
  /\ response'[SeqSlot].statusCode = 200

\* C32: a successful confirm-upload changes the status and the last_modified
\* of the record at (caller, file_id) and nothing else: the record keeps its
\* other fields, among them file_id, owner, name, category, size, object key,
\* title, description, tags, creation date and version, no record is added or
\* removed, and every other record is as it was.
C32_ConfirmFrame ==
  [][ConfirmSucceeds
       => LET k == KeyOf(SeqSlot)
          IN /\ k[2] = TokenSub(RequestAuthorization[2])
             /\ k \in DOMAIN table
             /\ DOMAIN table' = DOMAIN table
             /\ DOMAIN table'[k] = DOMAIN table[k]
             /\ \A a \in DOMAIN table[k] \ ConfirmedFields :
                  table'[k][a] = table[k][a]
             /\ table'[k].status = "completed"
             /\ \A x \in DOMAIN table \ {k} : table'[x] = table[x]]_vars

\* C32 witness: a confirm-upload of u1 was answered 200, its record is
\* completed, and the table holds a record of u2 and another record of u1
C32_Witness ==
  /\ request # None
  /\ OperationOf(request) = "complete_upload"
  /\ pc[SeqSlot] = "done"
  /\ response[SeqSlot].statusCode = 200
  /\ KeyOf(SeqSlot) \in DOMAIN table
  /\ table[KeyOf(SeqSlot)].status = "completed"
  /\ \E x, y \in DOMAIN table \ {KeyOf(SeqSlot)} :
       x[2] = U1 /\ y[2] = U2 /\ table[x].status = "uploading"


\* the put_item of a request-upload is answered 200 in this step
CreateSucceeds ==
  /\ Steps(SeqSlot, "put_item")
  /\ response'[SeqSlot].statusCode = 200

\* C33: the record a request-upload creates is in status uploading at version
\* 1, is owned by the principal the provider verified for the request's
\* token, has the file_id the response returns, and has the category the
\* allow-list holds the extension of the declared name under.
C33_CreatedRecordShape ==
  [][CreateSucceeds
       => LET k == KeyOf(SeqSlot)
              item == table'[k]
          IN /\ k \in DOMAIN table'
             /\ \A x \in DOMAIN table' \ {k} : x \in DOMAIN table /\ table'[x] = table[x]
             /\ item.status = "uploading"
             /\ item.version = 1
             /\ TokenAccepted(RequestAuthorization[2])
             /\ item.user_id = TokenSub(RequestAuthorization[2])
             /\ item.file_id = response'[SeqSlot].body.file_id
             /\ k = PrimaryKey(item.file_id, item.user_id)
             /\ HasAllowedExtension(RequestBody.file_info.name)
             /\ item.file_type = ListedCategory(RequestBody.file_info.name)]_vars

\* C33 witness: u2 holds a record in status uploading at version 1 and was
\* just returned its file_id, and u1 holds a record of a document
C33_Witness ==
  /\ request # None
  /\ OperationOf(request) = "get_upload_url"
  /\ pc[SeqSlot] = "done"
  /\ response[SeqSlot].statusCode = 200
  /\ KeyOf(SeqSlot) \in DOMAIN table
  /\ KeyOf(SeqSlot)[2] = U2
  /\ table[KeyOf(SeqSlot)].file_id = response[SeqSlot].body.file_id
  /\ table[KeyOf(SeqSlot)].status = "uploading"
  /\ \E x \in DOMAIN table : x[2] = U1 /\ table[x].file_type = "document"


\* the calls to collaborators a request can make
DependencyCalls ==
  {"get_user", "generate_presigned_url", "put_item", "update_item", "get_item"}

\* C34: no dependency call is retried.  The calls of an invocation are
\* dependency calls no two of which are the same call; and when a call
\* raised, it is the last call of the invocation, it is the only one that
\* raised, and the invocation is over with a response that is not 200.
C34_NoRetry ==
  LET cs == calls[SeqSlot]
      ex == raised[SeqSlot]
  IN /\ \A i \in 1..Len(cs) : cs[i] \in DependencyCalls
     /\ \A i, j \in 1..Len(cs) : cs[i] = cs[j] => i = j
     /\ \A i \in 1..Len(ex) :
          ex[i].call \in DependencyCalls
            => /\ Len(ex) = 1
               /\ cs # <<>> /\ cs[Len(cs)] = ex[i].call
               /\ pc[SeqSlot] = "done"
               /\ response[SeqSlot].statusCode \in {401, 404, 500}

\* C34 witness: a request-download whose get_item returned and whose
\* generate_presigned_url raised ended after these three calls
C34_Witness ==
  /\ calls[SeqSlot] = <<"get_user", "get_item", "generate_presigned_url">>
  /\ raised[SeqSlot] = <<Exc("generate_presigned_url", "Exception")>>
  /\ pc[SeqSlot] = "done"
  /\ response[SeqSlot].statusCode = 500


\* the user the pool issued an access token to
PoolUser(token) == IF token = "tok_u2" THEN U2 ELSE U1

\* C35: an operation is dispatched only for a token the provider accepted
\* while it answered, and the owner handed to the operation is the user the
\* pool issued that token to: a user's identifier, never None, missing or
\* empty, and the owner part of the key of every table access of the
\* request.
C35_OwnerIsVerifiedPrincipal ==
  (request # None /\ loc[SeqSlot].operation # "")
    => /\ RequestHeaders # None
       /\ HasBearerForm
       /\ request.idpUp
       /\ RequestAuthorization[2] \in {"tok_u1", "tok_u2"}
       /\ loc[SeqSlot].user_id = PoolUser(RequestAuthorization[2])
       /\ loc[SeqSlot].user_id \in Users
       /\ loc[SeqSlot].user_id # <<>>
       /\ KeyOf(SeqSlot)[2] = PoolUser(RequestAuthorization[2])

\* C35 witness: a confirm-upload under u2's token is about to update the
\* table with u2 as the owner
C35_Witness ==
  /\ request # None
  /\ RequestAuthorization = <<"Bearer", "tok_u2">>
  /\ pc[SeqSlot] = "update_item"
  /\ loc[SeqSlot].operation = "complete_upload"
  /\ loc[SeqSlot].user_id = U2


\* the generate_presigned_url of a request-download is answered 200 in this
\* step
DownloadSucceeds ==
  /\ Steps(SeqSlot, "sign_get")
  /\ response'[SeqSlot].statusCode = 200

\* C36: upload and download address the same object.  The write URL a
\* request-upload returns is signed for the s3_key of the record it creates;
\* a record keeps its s3_key from then on; and the read URL a
\* request-download returns is signed for the s3_key of the record it read,
\* so for the key of the write URL.
C36_SameObject ==
  [][/\ CreateSucceeds
          => /\ response'[SeqSlot].body.upload_url.method = "put_object"
             /\ response'[SeqSlot].body.upload_url.Key = table'[KeyOf(SeqSlot)].s3_key
     /\ \A k \in DOMAIN table :
          k \in DOMAIN table' /\ table'[k].s3_key = table[k].s3_key
     /\ DownloadSucceeds
          => /\ KeyOf(SeqSlot) \in DOMAIN table
             /\ response'[SeqSlot].body.download_url.method = "get_object"
             /\ response'[SeqSlot].body.download_url.Key = table[KeyOf(SeqSlot)].s3_key]_vars


\* the get_item of a request-download finds a record of the caller
DownloadFindsRecord ==
  /\ Steps(SeqSlot, "get_item")
  /\ KeyOf(SeqSlot) \in DOMAIN table

\* C37, as stated: a request-download for a record the caller owns issues a
\* read URL and is answered 200, whether the record is uploading or
\* completed, and it leaves the table as it is.
C37_DownloadAlways200 ==
  [][/\ DownloadFindsRecord
          => pc'[SeqSlot] = "sign_get" /\ table' = table
     /\ Steps(SeqSlot, "sign_get")
          => /\ response'[SeqSlot].statusCode = 200
             /\ "download_url" \in DOMAIN response'[SeqSlot].body
             /\ table' = table]_vars

\* C37, amended: such a request-download issues a read URL and is answered
\* 200 whenever its get_item and its generate_presigned_url return, whatever
\* the status of the record, and is answered 500 when one of them raises; in
\* every case it leaves the table as it is.
C37_DownloadIgnoresStatus ==
  [][/\ DownloadFindsRecord
          => /\ table' = table
             /\ table[KeyOf(SeqSlot)].status \in {"uploading", "completed"}
             /\ IF raised'[SeqSlot] = raised[SeqSlot]
                THEN /\ pc'[SeqSlot] = "sign_get"
                     /\ loc'[SeqSlot].file_item = table[KeyOf(SeqSlot)]
                ELSE /\ pc'[SeqSlot] = "done"
                     /\ response'[SeqSlot].statusCode = 500
     /\ Steps(SeqSlot, "sign_get")
          => /\ table' = table
             /\ pc'[SeqSlot] = "done"
             /\ IF raised'[SeqSlot] = raised[SeqSlot]
                THEN /\ response'[SeqSlot].statusCode = 200
                     /\ response'[SeqSlot].body.download_url # None
                     /\ response'[SeqSlot].body.file_info.filename
                          = table[KeyOf(SeqSlot)].filename
                ELSE /\ response'[SeqSlot].statusCode = 500
                     /\ "download_url" \notin DOMAIN response'[SeqSlot].body]_vars

\* C37 witness: a request-download was answered 200 with a read URL for a
\* record that is still uploading, while the caller holds a completed record
\* too
C37_Witness ==
  /\ request # None
  /\ OperationOf(request) = "get_download_url"
  /\ pc[SeqSlot] = "done"
  /\ response[SeqSlot].statusCode = 200
  /\ "download_url" \in DOMAIN response[SeqSlot].body
  /\ KeyOf(SeqSlot) \in DOMAIN table
  /\ table[KeyOf(SeqSlot)].status = "uploading"
  /\ \E x \in DOMAIN table : x[2] = KeyOf(SeqSlot)[2] /\ table[x].status = "completed"


\* the registration under way, finished or not
Registering ==
  /\ auth.event # None
  /\ PathOf(auth.event) = "register"
  /\ MethodOf(auth.event) = "POST"

\* sign_up of the registration under way returned without raising
SignUpSucceeded ==
  /\ Registering
  /\ AuthCalled("sign_up")
  /\ \A i \in 1..Len(auth.raised) : auth.raised[i].call # "sign_up"

\* the users-table write of the registration under way raised
DetailsWriteFailed ==
  /\ Registering
  /\ \E i \in 1..Len(auth.raised) : auth.raised[i].call = "put_item"

\* C38: a finished registration is answered 200 exactly when sign_up
\* succeeded; the users table is written only after a successful sign_up; and
\* a failure of that write is swallowed: the answer is still 200 and the user
\* is in the provider's pool with no details record.
C38_RegistrationSuccessIffSignUp ==
  /\ Registering /\ AuthCalled("put_item") => SignUpSucceeded
  /\ Registering /\ auth.pc = "put_item" => SignUpSucceeded
  /\ Registering /\ auth.pc = "done"
       => (auth.response.statusCode = 200 <=> SignUpSucceeded)
  /\ DetailsWriteFailed
       => /\ auth.pc = "done"
          /\ auth.response.statusCode = 200
          /\ auth.event.body.username \in auth.pool
          /\ auth.event.body.username \notin DOMAIN auth.users


\* the user the request sv served last was made for, "" when it names none
Asker(sv) == IF "args" \in DOMAIN sv.op THEN UserIdOf(sv.op.args) ELSE ""

\* the request sv served last is the operation name on the file f
ServedOn(sv, name, f) ==
  /\ sv.op.name = name
  /\ sv.op.file_id = f

\* the request sv served last is a download or a delete of the file f
AskedFor(sv, f) ==
  ServedOn(sv, "download_file", f) \/ ServedOn(sv, "delete_file", f)

\* the response of sv lists the file f
Lists(sv, f) ==
  /\ "files" \in DOMAIN sv.response.body
  /\ \E k \in DOMAIN sv.response.body.files : sv.response.body.files[k].id = f

\* the SQLite call of the request sv served last raised
SqliteRaised(sv) ==
  /\ sv.response.status = 500
  /\ sv.response.body.error = "OperationalError"

\* what C39 says of every request but for the status of a refused download
\* or delete: the row of a file is never removed; is_deleted goes from 0 to
\* 1 only, and only in a delete by the uploader that is answered 200; once
\* it is 1 the row never changes and no list of the uploader shows the
\* file; a delete or download by another user changes nothing.
SoftDeleteFrame(sv, next) ==
  \A f \in DOMAIN sv.files :
    LET row == sv.files[f]
    IN /\ f \in DOMAIN next.files
       /\ next.files[f].uploaded_by = row.uploaded_by
       /\ row.is_deleted = 1 => next.files[f] = row
       /\ (row.is_deleted = 0 /\ next.files[f].is_deleted = 1)
            <=> /\ ServedOn(next, "delete_file", f)
                /\ next.response.status = 200
       /\ (ServedOn(next, "delete_file", f) /\ next.response.status = 200)
            => Asker(next) = row.uploaded_by
       /\ (row.is_deleted = 1 /\ next.op.name = "list_files"
           /\ Asker(next) = row.uploaded_by)
            => ~Lists(next, f)
       /\ (AskedFor(next, f) /\ Asker(next) # row.uploaded_by)
            => /\ next.files = sv.files
               /\ next.disk = sv.disk

\* C39 as stated: deletion in the local server is a one-way soft delete
\* scoped to the uploader: after a successful delete of a file by its
\* uploader every later list for that user omits it and every later download
\* and delete of it returns 404, the row is never removed, and a delete or
\* download by a different user_id returns 404 and changes nothing.
C39_SoftDeleteAlways404 ==
  [][/\ SoftDeleteFrame(server, server')
     /\ \A f \in DOMAIN server.files :
          /\ (server.files[f].is_deleted = 1 /\ AskedFor(server', f))
               => server'.response.status = 404
          /\ (AskedFor(server', f) /\ Asker(server') # server.files[f].uploaded_by)
               => server'.response.status = 404]_vars

\* C39, amended: the same, where every later download and delete of the
\* deleted file, and every download or delete by a different user_id, is
\* answered 404 when the SQLite calls succeed and 500 when one of them
\* raises, and never 200.
C39_SoftDeleteOneWay ==
  [][/\ SoftDeleteFrame(server, server')
     /\ \A f \in DOMAIN server.files :
          /\ (server.files[f].is_deleted = 1 /\ AskedFor(server', f))
               => /\ server'.response.status \in {404, 500}
                  /\ server'.response.status = 500 <=> SqliteRaised(server')
          /\ (AskedFor(server', f) /\ Asker(server') # server.files[f].uploaded_by)
               => /\ server'.response.status \in {404, 500}
                  /\ server'.response.status = 500 <=> SqliteRaised(server')]_vars

\* C39 witness: the uploader asks for a file of theirs that was deleted and
\* is still in the table and on disk, and is answered 404
C39_Witness ==
  /\ server.op # None
  /\ ServedOn(server, "download_file", <<"i","1">>)
  /\ <<"i","1">> \in DOMAIN server.files
  /\ server.files[<<"i","1">>].is_deleted = 1
  /\ Asker(server) = server.files[<<"i","1">>].uploaded_by
  /\ server.files[<<"i","1">>].file_path \in DOMAIN server.disk
  /\ server.response.status = 404

====
